---- MODULE Spec2Model ----
(***************************************************************************)
(* Streaming completion pipeline of chatcanvas: POST /api/chat validates   *)
(* the request, selects a provider adapter, starts one streaming           *)
(* generation, tees the chunk stream into a client branch and a collector  *)
(* branch, and persists the exchange in one database transaction.  The     *)
(* repository holds two implementations of the route: route "llm" is the   *)
(* one built on lib/llm and tee(), route "sdk" the one built on            *)
(* streamText and saveChat.                                                *)
(*                                                                         *)
(* Text is a sequence of one-character strings, so that concatenation and  *)
(* truncation are computed.  An optional value is a sequence of length at  *)
(* most one: None for undefined, Some(x) for a present value.              *)
(***************************************************************************)
EXTENDS Integers, Sequences, FiniteSets, TLC

\* ------------------------------------------------------------------ bounds
\* Most backend events one generation delivers before it ends or fails.
MaxEvents == 2
\* Most messages in one request body.
MaxMsgs == 2
\* Callers of the storage operations, each calling one operation.
MaxCallers == 2

\* ------------------------------------------------------- program constants
\* temperature is kept in tenths: 0.7 is 7, the range [0, 2] is 0..20.
DefaultTemperature == 7
MaxTemperature == 20
\* title: userMessageContent.substring(0, 100)
TitleLength == 100
\* saveChat title: messages[0]?.content.slice(0, 50)
SaveTitleLength == 50

\* new ReadableStream({ start }) and tee() are given no queuing strategy: the
\* high-water mark of the provider's stream and of each branch is the
\* platform default, one chunk.
HighWaterMark == 1

\* --------------------------------------------------------------- helpers
None == <<>>
Some(x) == <<x>>
IsSome(o) == Len(o) = 1
Get(o) == o[1]

Last(s) == s[Len(s)]

IsPrefix(s, t) == /\ Len(s) <= Len(t)
                  /\ \A i \in 1..Len(s) : s[i] = t[i]

\* String.prototype.substring(0, n)
Substring(s, n) == IF Len(s) <= n THEN s ELSE SubSeq(s, 1, n)

SeqsUpTo(S, n) == UNION {[1..k -> S] : k \in 0..n}

\* ------------------------------------------------------------ data shapes
Roles == {"user", "assistant", "system"}

\* StreamChunk (types.ts): optional model is "" when absent, optional
\* finishReason is "undefined" when absent and "null" for null.
ContentChunk(text, model) ==
    [content |-> text, done |-> FALSE, model |-> model,
     usage |-> None, finishReason |-> "undefined"]

FinalChunk(model, usage, reason) ==
    [content |-> <<>>, done |-> TRUE, model |-> model,
     usage |-> usage, finishReason |-> reason]

TokenUsage(p, c, t) ==
    [promptTokens |-> p, completionTokens |-> c, totalTokens |-> t]

RECURSIVE ConcatContent(_)
\* The content of the chunks, concatenated in order.
ConcatContent(chunks) ==
    IF chunks = <<>> THEN <<>>
    ELSE Head(chunks).content \o ConcatContent(Tail(chunks))

RECURSIVE CollectStream(_)
\* collectStream: for each chunk in order, the final chunk sets usage and
\* model, any other chunk appends its content and sets model if it has one.
CollectStream(chunks) ==
    IF chunks = <<>> THEN [content |-> <<>>, usage |-> None, model |-> ""]
    ELSE LET acc == CollectStream(SubSeq(chunks, 1, Len(chunks) - 1))
             chunk == Last(chunks)
         IN IF chunk.done
            THEN [acc EXCEPT !.usage = chunk.usage, !.model = chunk.model]
            ELSE [acc EXCEPT !.content = @ \o chunk.content,
                             !.model = IF chunk.model # "" THEN chunk.model ELSE @]

\* -------------------------------------------------------- request checking
\* ChatSchema.parse: messages is a non-empty array of {role, content} with a
\* known role, temperature (when given) lies in [0, 2] and defaults to 0.7,
\* maxTokens (when given) is positive.  Nothing is defaulted on failure.
ChatSchemaIssues(input) ==
    (IF Len(input.messages) < 1 THEN {"messages"} ELSE {})
    \cup (IF \E i \in 1..Len(input.messages) : input.messages[i].role \notin Roles
          THEN {"role"} ELSE {})
    \cup (IF IsSome(input.temperature)
             /\ (Get(input.temperature) < 0 \/ Get(input.temperature) > MaxTemperature)
          THEN {"temperature"} ELSE {})
    \cup (IF IsSome(input.maxTokens) /\ Get(input.maxTokens) <= 0
          THEN {"maxTokens"} ELSE {})

ChatSchemaParse(input) ==
    [system      |-> input.system,
     messages    |-> input.messages,
     temperature |-> IF IsSome(input.temperature) THEN Get(input.temperature)
                     ELSE DefaultTemperature,
     maxTokens   |-> input.maxTokens,
     stream      |-> TRUE]

\* requestSchema.parse of the "sdk" route: as ChatSchema, but the messages
\* array has no minimum length.
RequestSchemaIssues(input) ==
    (IF \E i \in 1..Len(input.messages) : input.messages[i].role \notin Roles
     THEN {"role"} ELSE {})
    \cup (IF IsSome(input.temperature)
             /\ (Get(input.temperature) < 0 \/ Get(input.temperature) > MaxTemperature)
          THEN {"temperature"} ELSE {})
    \cup (IF IsSome(input.maxTokens) /\ Get(input.maxTokens) <= 0
          THEN {"maxTokens"} ELSE {})

\* saveChat: title || messages[0]?.content.slice(0, 50) || "New Chat"
NewChatTitle == <<"N", "e", "w", " ", "C", "h", "a", "t">>

SaveChatTitle(title, messages) ==
    IF IsSome(title) /\ Get(title) # <<>> THEN Get(title)
    ELSE IF messages # <<>> /\ Substring(messages[1].content, SaveTitleLength) # <<>>
    THEN Substring(messages[1].content, SaveTitleLength)
    ELSE NewChatTitle

\* ------------------------------------------------------ provider selection
ProviderNames == {"openai", "anthropic"}

\* isConfigured(): the adapter holds a client, i.e. its API key is set.
IsConfigured(cfg, p) == p \in cfg.keys

\* Mutant of GetProvider: the adapter is returned without asking
\* isConfigured().
GetProvider_Unchecked(cfg) ==
    IF cfg.provider \notin ProviderNames THEN "invalid" ELSE "ok"

\* getProvider(): "ok" with the adapter, or the LLMProviderError it throws.
GetProvider(cfg) ==
    IF cfg.provider \notin ProviderNames THEN "invalid"
    ELSE IF ~IsConfigured(cfg, cfg.provider) THEN "unconfigured"
    ELSE "ok"

\* getName()
GetName(p) == IF p = "openai" THEN "OpenAI" ELSE "Anthropic"

\* ---------------------------------------------------------- OpenAI adapter
\* One backend stream event: delta.content ("" or absent is <<>>),
\* choices[0].finish_reason ("null" when null or absent) and the optional
\* usage block of the event.
OpenAIChunks(ev) ==
    (IF ev.content # <<>>
     THEN <<ContentChunk(ev.content, ev.model)>> ELSE <<>>)
    \o
    (IF ev.finish # "null"
     THEN <<FinalChunk(ev.model,
                       IF IsSome(ev.usage)
                       THEN Some(TokenUsage(Get(ev.usage).prompt_tokens,
                                            Get(ev.usage).completion_tokens,
                                            Get(ev.usage).total_tokens))
                       ELSE None,
                       ev.finish)>>
     ELSE <<>>)

\* ------------------------------------------------------- Anthropic adapter
\* mapStopReason
MapStopReason(reason) ==
    IF reason = "null" THEN "null"
    ELSE IF reason = "end_turn" THEN "stop"
    ELSE IF reason = "max_tokens" THEN "length"
    ELSE IF reason = "stop_sequence" THEN "stop"
    ELSE "null"

\* The usage computed from the final message at message_stop.
AnthropicFinalUsage(message) ==
    TokenUsage(message.input_tokens, message.output_tokens,
               message.input_tokens + message.output_tokens)

\* Chunks enqueued for one SSE event; message is stream.finalMessage().
AnthropicChunks(ev, message) ==
    IF ev.type = "content_block_delta" /\ ev.deltaType = "text_delta"
    THEN <<ContentChunk(ev.text, "")>>
    ELSE IF ev.type = "message_stop"
    THEN <<FinalChunk(message.model, Some(AnthropicFinalUsage(message)),
                      MapStopReason(message.stop_reason))>>
    ELSE <<>>

\* The loop's local `usage` after the event.
AnthropicUsageVar(ev, message, usage) ==
    IF ev.type = "message_delta" /\ IsSome(ev.usage)
    THEN Some(TokenUsage(0, Get(ev.usage).output_tokens, Get(ev.usage).output_tokens))
    ELSE IF ev.type = "message_stop"
    THEN Some(AnthropicFinalUsage(message))
    ELSE usage

\* ------------------------------------------------- payload for the backend
\* OpenAIProvider.formatMessages: the system prompt, when it is a non-empty
\* string, becomes a leading system message; the messages follow as they are.
OpenAIFormatMessages(system, messages) ==
    (IF IsSome(system) /\ Get(system) # <<>>
     THEN <<[role |-> "system", content |-> Get(system)]>> ELSE <<>>)
    \o messages

\* Mutant of AnthropicFormatMessages: no message is filtered out.
AnthropicFormatMessages_KeepSystem(messages) == messages

\* AnthropicProvider.formatMessages, and the same filter written out in
\* chatStream: messages.filter(role !== "system").map({ role, content }).
AnthropicFormatMessages(messages) ==
    SelectSeq(messages, LAMBDA msg : msg.role # "system")

\* What the adapter passes to the backend SDK for a validated request: the
\* system field (Anthropic only; OpenAI's payload has none) and the messages.
BackendPayload(p, validated) ==
    IF p = "anthropic"
    THEN [system |-> validated.system,
          messages |-> AnthropicFormatMessages(validated.messages)]
    ELSE [system |-> None,
          messages |-> OpenAIFormatMessages(validated.system, validated.messages)]

\* --------------------------------------------------- non-streaming chat()
\* A ChatResponse, or the error thrown instead of one.
ChatOk(content, model, usage, reason) ==
    [outcome |-> "ok", content |-> content, model |-> model,
     usage |-> Some(usage), finishReason |-> reason]

ChatThrew(kind) ==
    [outcome |-> kind, content |-> <<>>, model |-> "", usage |-> None,
     finishReason |-> "null"]

\* OpenAIProvider.chat on the backend's response: each usage field is
\* taken as reported, 0 when the usage block is absent.
OpenAIChat(resp) ==
    IF resp.choice = None THEN ChatThrew("LLMAPIError")
    ELSE ChatOk(Get(resp.choice).content, resp.model,
                IF IsSome(resp.usage)
                THEN TokenUsage(Get(resp.usage).prompt_tokens,
                                Get(resp.usage).completion_tokens,
                                Get(resp.usage).total_tokens)
                ELSE TokenUsage(0, 0, 0),
                Get(resp.choice).finish_reason)

RECURSIVE JoinText(_)
\* response.content.filter(text blocks).map(text).join("")
JoinText(blocks) ==
    IF blocks = <<>> THEN <<>>
    ELSE (IF Head(blocks).type = "text" THEN Head(blocks).text ELSE <<>>)
         \o JoinText(Tail(blocks))

\* AnthropicProvider.chat on the backend's response.
AnthropicChat(resp) ==
    ChatOk(JoinText(resp.content), resp.model,
           TokenUsage(resp.input_tokens, resp.output_tokens,
                      resp.input_tokens + resp.output_tokens),
           MapStopReason(resp.stop_reason))

\* ------------------------------------------------------------------ inputs
ChatIds == {"c1"}

Texts == {<<"a">>, <<"b">>}

\* A content one character longer than the longer of the two title lengths.
LongContent == [i \in 1..(TitleLength + 1) |-> "x"]

\* Request bodies: every message list of at most MaxMsgs messages over the
\* three roles and one unknown role and over a short and a long content,
\* with in-range, out-of-range and absent temperature and maxTokens.
RequestContents == {<<"h", "i">>, LongContent}

RequestMessages ==
    SeqsUpTo([role : Roles \cup {"tool"}, content : RequestContents], MaxMsgs)

\* The optional system prompt of the body.
Systems == {None, Some(<<"s">>)}

Requests ==
    [chatId : ChatIds, userId : {None}, system : Systems, messages : RequestMessages,
     temperature : {None, Some(MaxTemperature), Some(MaxTemperature + 1)},
     maxTokens : {None, Some(0)}]

\* Environment: LLM_PROVIDER and the set of providers whose API key is set.
Configs == [provider : ProviderNames \cup {"bogus"},
            keys : {{}, {"openai"}, {"anthropic"}}]

BackendModel == "m1"

OpenAIUsages ==
    {None,
     Some([prompt_tokens |-> 1, completion_tokens |-> 2, total_tokens |-> 3]),
     Some([prompt_tokens |-> 1, completion_tokens |-> 1, total_tokens |-> 3])}

\* choices[0].finish_reason as the OpenAI SDK types it.
OpenAIFinishReasons ==
    {"stop", "length", "tool_calls", "content_filter", "function_call"}

\* Stream events: the adapter treats every finish_reason but null alike, so
\* two of the shared enum and the one outside it stand for the five.
OpenAIEvents ==
    [content : Texts \cup {<<>>},
     finish : {"null", "stop", "length", "function_call"},
     usage : OpenAIUsages, model : {BackendModel}]

AnthropicEvents ==
    [type : {"content_block_delta"}, deltaType : {"text_delta"},
     text : Texts \cup {<<>>}, usage : {None}]
    \cup [type : {"content_block_delta"}, deltaType : {"input_json_delta"},
          text : {<<>>}, usage : {None}]
    \cup [type : {"message_delta"}, deltaType : {""}, text : {<<>>},
          usage : {None, Some([output_tokens |-> 2])}]
    \cup [type : {"message_stop"}, deltaType : {""}, text : {<<>>}, usage : {None}]

\* The events the pipeline specification draws from: every shape of event
\* (content, finish, both, neither, with and without usage), with usage
\* numbers and finish reasons not varied.
StreamOpenAIEvents ==
    {ev \in OpenAIEvents :
        /\ ev.finish \in {"null", "stop"}
        /\ ev.usage \in {None, Some([prompt_tokens |-> 1, completion_tokens |-> 2,
                                     total_tokens |-> 3])}}

\* stream.finalMessage()
FinalMessages ==
    [model : {BackendModel}, input_tokens : {1}, output_tokens : {2},
     stop_reason : {"end_turn", "max_tokens", "stop_sequence", "tool_use", "null"}]

\* Non-streaming backend responses.
OpenAIResponses ==
    [choice : {None} \cup {Some(c) : c \in [content : Texts, finish_reason : OpenAIFinishReasons]},
     model : {BackendModel}, usage : OpenAIUsages]

AnthropicResponses ==
    [content : SeqsUpTo([type : {"text"}, text : Texts]
                        \cup [type : {"tool_use"}, text : {<<>>}], 2),
     model : {BackendModel}, input_tokens : {1}, output_tokens : {2},
     stop_reason : {"end_turn", "max_tokens", "stop_sequence", "tool_use", "null"}]

StreamFinalMessages == {m \in FinalMessages : m.stop_reason = "end_turn"}

\* What the SDK throws: an APIError with its status, or another error.
BackendErrors ==
    {[api |-> TRUE, status |-> Some(429)], [api |-> FALSE, status |-> None]}

\* Storage operations called directly: the callers, the ids cuid() hands out
\* (one per caller is enough), and every id a Chat row can have.
Callers == 1..MaxCallers
FreshIds == {ToString(i) : i \in Callers}
StoredIds == ChatIds \cup FreshIds

RepoOps == {"routeTx", "saveChat", "getOrCreateChat", "appendMessage"}

\* A caller that has not called anything yet.
IdleCall ==
    [op |-> "idle", pc |-> "idle", chatId |-> None, role |-> "user",
     found |-> FALSE, created |-> FALSE, chat |-> None, messages |-> <<>>,
     wrote |-> <<>>,
     txChat |-> None, txMessages |-> <<>>, txUpdatedAt |-> None,
     result |-> "none", began |-> 0]

\* ------------------------------------------------------------------- state
Branches == {"client", "collector"}

VARIABLES
    request,          \* the request not yet handled, or None
    route,            \* the route implementation serving it: "llm" or "sdk"
    sdkPc,            \* streamText: "idle", "streaming", "finished", "errored"
    savePc,           \* saveChat's transaction position
    chatResult,       \* what the non-streaming chat() returned or threw, or None
    config,           \* LLM_PROVIDER and configured API keys
    response,         \* what POST returned: None, or Some([status, error, provider])
    job,              \* arguments collectAndSaveResponse was started with, or None
    chatStreamCalls,  \* calls of chatStream
    upstreamCalls,    \* streaming calls made to the backend SDK
    sent,             \* payload of the adapter's backend call: of a streaming
                      \* call while it is awaited, of a chat() call once made
    provPc,           \* start(): "idle", "awaiting", "iterating", "closed", "errored"
    nEvents,          \* backend events iterated so far
    usageVar,         \* the Anthropic loop's local `usage`
    emitted,          \* every chunk passed to controller.enqueue, in order
    reported,         \* the latest complete usage the backend delivered
    srcQueue,         \* queue of the provider's ReadableStream
    srcClosed,        \* controller.close() was called on it
    srcError,         \* controller.error(e) was called on it: Some(e)
    queue,            \* queue of each tee branch
    brClosed,         \* each tee branch: close requested
    brError,          \* each tee branch: errored with Some(e)
    cancelled,        \* each tee branch: cancelled by its consumer
    clientReceived,   \* chunks the caller has read from the response body
    clientState,      \* "none", "reading", "closed", "errored", "cancelled"
    collPc,           \* collectAndSaveResponse: "none", "reading", "saving", "saved", "failed"
    collReceived,     \* chunks the collector has read
    assistantContent, completionTokens, finishReason,
    logged,           \* console.error / console.log lines written
    dbChats,          \* committed Chat rows by id: None or Some(row)
    dbMessages,       \* committed Message rows in creation order
    clock,            \* database time
    txPc,             \* the transaction's position
    txChat,           \* uncommitted Chat row written by the transaction
    txMessages,       \* uncommitted Message rows written by the transaction
    calls,            \* storage operations called directly, one per caller
    finished          \* the callers whose operation has ended, in that order

inputVars == <<request, config, route>>
sdkVars == <<sdkPc, savePc>>
postVars == <<response, job, chatStreamCalls>>
provVars == <<upstreamCalls, sent, provPc, nEvents, usageVar, emitted, reported>>
srcVars == <<srcQueue, srcClosed, srcError>>
teeVars == <<queue, brClosed, brError, cancelled>>
clientVars == <<clientReceived, clientState>>
collVars == <<collPc, collReceived, assistantContent, completionTokens, finishReason>>
dbVars == <<dbChats, dbMessages, clock>>
txVars == <<txPc, txChat, txMessages>>

repoVars == <<calls, finished>>

vars == <<repoVars, inputVars, chatResult, sdkVars, postVars, provVars, srcVars, teeVars, clientVars,
          collVars, logged, dbVars, txVars>>

\* Storage before the request: empty, or the conversation exists already.
OldChat == [id |-> "c1", userId |-> None, title |-> <<"o">>,
            createdAt |-> 0, updatedAt |-> 0]
OldMessage == [id |-> <<0, 1>>, chatId |-> "c1", role |-> "user",
               content |-> <<"o">>, tokens |-> None, createdAt |-> 0]

\* Message.id @default(cuid()): an id no other row has.  Every statement has
\* its own time, so the time and the row's position in the statement name it.
NewMessageId(time, k) == <<time, k>>

\* createMany({ skipDuplicates: true }): the rows that collide with a stored
\* row on a unique key are left out.  Message has one unique key, its id.
SkipDuplicates(rows, stored) ==
    SelectSeq(rows, LAMBDA row : \A i \in 1..Len(stored) : stored[i].id # row.id)

Init ==
    /\ request \in {Some(r) : r \in Requests}
    /\ config \in Configs
    /\ route \in {"llm", "sdk"}
    /\ sdkPc = "idle"
    /\ savePc = "idle"
    /\ chatResult = None
    /\ response = None
    /\ job = None
    /\ chatStreamCalls = 0
    /\ upstreamCalls = 0
    /\ sent = None
    /\ provPc = "idle"
    /\ nEvents = 0
    /\ usageVar = None
    /\ emitted = <<>>
    /\ reported = None
    /\ srcQueue = <<>>
    /\ srcClosed = FALSE
    /\ srcError = None
    /\ queue = [b \in Branches |-> <<>>]
    /\ brClosed = [b \in Branches |-> FALSE]
    /\ brError = [b \in Branches |-> None]
    /\ cancelled = [b \in Branches |-> FALSE]
    /\ clientReceived = <<>>
    /\ clientState = "none"
    /\ collPc = "none"
    /\ collReceived = <<>>
    /\ assistantContent = <<>>
    /\ completionTokens = 0
    /\ finishReason = "null"
    /\ logged = {}
    /\ \/ dbChats = [c \in StoredIds |-> None] /\ dbMessages = <<>>
       \/ /\ dbChats = [c \in StoredIds |-> IF c \in ChatIds THEN Some(OldChat) ELSE None]
          /\ dbMessages = <<OldMessage>>
    /\ calls = [c \in Callers |-> IdleCall]
    /\ finished = <<>>
    /\ clock = 1
    /\ txPc = "idle"
    /\ txChat = None
    /\ txMessages = <<>>

\* -------------------------------------------------------------------- POST
Respond(status, error, provider) ==
    Some([status |-> status, error |-> error, provider |-> provider])

\* POST, catch: ChatSchema.parse throws ZodError -> 400 "Validation error".
PostRejectValidation ==
    /\ route = "llm"
    /\ IsSome(request)
    /\ ChatSchemaIssues(Get(request)) # {}
    /\ response' = Respond(400, "Validation error", "")
    /\ request' = None
    /\ UNCHANGED <<repoVars, config, route, chatResult, sdkVars, job, chatStreamCalls, provVars, srcVars, teeVars,
                   clientVars, collVars, logged, dbVars, txVars>>

\* POST: the last message is not a user message -> 400.
PostRejectLastMessage ==
    /\ route = "llm"
    /\ IsSome(request)
    /\ ChatSchemaIssues(Get(request)) = {}
    /\ Last(ChatSchemaParse(Get(request)).messages).role # "user"
    /\ response' = Respond(400, "Last message must be from user", "")
    /\ request' = None
    /\ UNCHANGED <<repoVars, config, route, chatResult, sdkVars, job, chatStreamCalls, provVars, srcVars, teeVars,
                   clientVars, collVars, logged, dbVars, txVars>>

\* POST, catch: getCurrentProviderName() -> getProvider() throws
\* LLMProviderError -> 503.
PostRejectProvider ==
    /\ route = "llm"
    /\ IsSome(request)
    /\ ChatSchemaIssues(Get(request)) = {}
    /\ Last(ChatSchemaParse(Get(request)).messages).role = "user"
    /\ GetProvider(config) # "ok"
    /\ response' = Respond(503, "Provider configuration error", "")
    /\ request' = None
    /\ UNCHANGED <<repoVars, config, route, chatResult, sdkVars, job, chatStreamCalls, provVars, srcVars, teeVars,
                   clientVars, collVars, logged, dbVars, txVars>>

\* Mutant of PostAccept: the generation is started once per consumer instead
\* of being split.
PostAccept_CallPerConsumer ==
    /\ route = "llm"
    /\ IsSome(request)
    /\ ChatSchemaIssues(Get(request)) = {}
    /\ Last(ChatSchemaParse(Get(request)).messages).role = "user"
    /\ GetProvider(config) = "ok"
    /\ chatStreamCalls' = chatStreamCalls + 2
    /\ upstreamCalls' = upstreamCalls + 2
    /\ provPc' = "awaiting"
    /\ sent' = Some(BackendPayload(config.provider, ChatSchemaParse(Get(request))))
    /\ job' = Some([chatId |-> Get(request).chatId,
                    userId |-> Get(request).userId,
                    userMessageContent |->
                        Last(ChatSchemaParse(Get(request)).messages).content,
                    provider |-> GetName(config.provider)])
    /\ collPc' = "reading"
    /\ response' = Respond(200, "", GetName(config.provider))
    /\ clientState' = "reading"
    /\ request' = None
    /\ UNCHANGED <<repoVars, config, route, chatResult, sdkVars, nEvents, usageVar, emitted, reported, srcVars, teeVars,
                   clientReceived, collReceived, assistantContent,
                   completionTokens, finishReason, logged, dbVars, txVars>>

\* Mutant of PostAccept: the collector is given the first message of the
\* request instead of the last.
PostAccept_FirstMessage ==
    /\ route = "llm"
    /\ IsSome(request)
    /\ ChatSchemaIssues(Get(request)) = {}
    /\ Last(ChatSchemaParse(Get(request)).messages).role = "user"
    /\ GetProvider(config) = "ok"
    /\ chatStreamCalls' = chatStreamCalls + 1
    /\ upstreamCalls' = upstreamCalls + 1
    /\ provPc' = "awaiting"
    /\ sent' = Some(BackendPayload(config.provider, ChatSchemaParse(Get(request))))
    /\ job' = Some([chatId |-> Get(request).chatId,
                    userId |-> Get(request).userId,
                    userMessageContent |->
                        Head(ChatSchemaParse(Get(request)).messages).content,
                    provider |-> GetName(config.provider)])
    /\ collPc' = "reading"
    /\ response' = Respond(200, "", GetName(config.provider))
    /\ clientState' = "reading"
    /\ request' = None
    /\ UNCHANGED <<repoVars, config, route, chatResult, sdkVars, nEvents, usageVar, emitted, reported, srcVars, teeVars,
                   clientReceived, collReceived, assistantContent,
                   completionTokens, finishReason, logged, dbVars, txVars>>

\* Mutant of PostAccept: the check of the last message's role is missing.
PostAccept_NoLastCheck ==
    /\ route = "llm"
    /\ IsSome(request)
    /\ ChatSchemaIssues(Get(request)) = {}
    /\ GetProvider(config) = "ok"
    /\ chatStreamCalls' = chatStreamCalls + 1
    /\ upstreamCalls' = upstreamCalls + 1
    /\ provPc' = "awaiting"
    /\ sent' = Some(BackendPayload(config.provider, ChatSchemaParse(Get(request))))
    /\ job' = Some([chatId |-> Get(request).chatId,
                    userId |-> Get(request).userId,
                    userMessageContent |->
                        Last(ChatSchemaParse(Get(request)).messages).content,
                    provider |-> GetName(config.provider)])
    /\ collPc' = "reading"
    /\ response' = Respond(200, "", GetName(config.provider))
    /\ clientState' = "reading"
    /\ request' = None
    /\ UNCHANGED <<repoVars, config, route, chatResult, sdkVars, nEvents, usageVar, emitted, reported, srcVars, teeVars,
                   clientReceived, collReceived, assistantContent,
                   completionTokens, finishReason, logged, dbVars, txVars>>

\* POST, the accepted path, one synchronous turn: chatStream(validated)
\* builds the provider's ReadableStream, whose start() issues the backend
\* call; llmStream.tee(); collectAndSaveResponse(...) is started and not
\* awaited; the Response carrying clientStream is returned.
PostAccept ==
    /\ route = "llm"
    /\ IsSome(request)
    /\ ChatSchemaIssues(Get(request)) = {}
    /\ Last(ChatSchemaParse(Get(request)).messages).role = "user"
    /\ GetProvider(config) = "ok"
    /\ chatStreamCalls' = chatStreamCalls + 1
    /\ upstreamCalls' = upstreamCalls + 1
    /\ provPc' = "awaiting"
    /\ sent' = Some(BackendPayload(config.provider, ChatSchemaParse(Get(request))))
    /\ job' = Some([chatId |-> Get(request).chatId,
                    userId |-> Get(request).userId,
                    userMessageContent |->
                        Last(ChatSchemaParse(Get(request)).messages).content,
                    provider |-> GetName(config.provider)])
    /\ collPc' = "reading"
    /\ response' = Respond(200, "", GetName(config.provider))
    /\ clientState' = "reading"
    /\ request' = None
    /\ UNCHANGED <<repoVars, config, route, chatResult, sdkVars, nEvents, usageVar, emitted, reported, srcVars, teeVars,
                   clientReceived, collReceived, assistantContent,
                   completionTokens, finishReason, logged, dbVars, txVars>>

\* ------------------------------------------------- provider stream: start()
\* controller.enqueue for each chunk, in order.
Enqueue(chunks) ==
    /\ srcQueue' = srcQueue \o chunks
    /\ emitted' = emitted \o chunks

\* OpenAIProvider.chatStream, one iteration of `for await (chunk of stream)`.
OpenAIEvent(ev) ==
    /\ provPc = "iterating"
    /\ config.provider = "openai"
    /\ nEvents < MaxEvents
    /\ nEvents' = nEvents + 1
    /\ Enqueue(OpenAIChunks(ev))
    /\ reported' = IF IsSome(ev.usage)
                   THEN Some(TokenUsage(Get(ev.usage).prompt_tokens,
                                        Get(ev.usage).completion_tokens,
                                        Get(ev.usage).total_tokens))
                   ELSE reported
    /\ UNCHANGED <<repoVars, inputVars, chatResult, sdkVars, postVars, upstreamCalls, sent, provPc, usageVar,
                   srcClosed, srcError, teeVars, clientVars, collVars, logged,
                   dbVars, txVars>>

\* AnthropicProvider.chatStream, one iteration of `for await (event of stream)`.
AnthropicEvent(ev, message) ==
    /\ provPc = "iterating"
    /\ config.provider = "anthropic"
    /\ nEvents < MaxEvents
    /\ nEvents' = nEvents + 1
    /\ Enqueue(AnthropicChunks(ev, message))
    /\ usageVar' = AnthropicUsageVar(ev, message, usageVar)
    /\ reported' = IF ev.type = "message_stop"
                   THEN Some(AnthropicFinalUsage(message))
                   ELSE reported
    /\ UNCHANGED <<repoVars, inputVars, chatResult, sdkVars, postVars, upstreamCalls, sent, provPc,
                   srcClosed, srcError, teeVars, clientVars, collVars, logged,
                   dbVars, txVars>>

\* The awaited backend call resolves with the event stream.
BackendConnect ==
    /\ provPc = "awaiting"
    /\ provPc' = "iterating"
    /\ sent' = None
    /\ UNCHANGED <<repoVars, inputVars, chatResult, sdkVars, postVars, upstreamCalls, nEvents, usageVar, emitted,
                   reported, srcVars, teeVars, clientVars, collVars, logged,
                   dbVars, txVars>>

\* The backend stream ends: controller.close().
BackendEnd ==
    /\ provPc = "iterating"
    /\ provPc' = "closed"
    /\ srcClosed' = TRUE
    /\ UNCHANGED <<repoVars, inputVars, chatResult, sdkVars, postVars, upstreamCalls, sent, nEvents, usageVar, emitted,
                   reported, srcQueue, srcError, teeVars, clientVars, collVars,
                   logged, dbVars, txVars>>

\* catch: an APIError becomes LLMAPIError(provider, status), any other error
\* is passed on as it is.
MapBackendError(err, p) ==
    IF err.api
    THEN [kind |-> "LLMAPIError", provider |-> GetName(p), statusCode |-> err.status]
    ELSE [kind |-> "Error", provider |-> "", statusCode |-> None]

\* The backend call rejects or the event stream throws: controller.error(e),
\* which discards what the stream still holds in its queue.
BackendFail(err) ==
    /\ provPc \in {"awaiting", "iterating"}
    /\ provPc' = "errored"
    /\ srcError' = Some(MapBackendError(err, config.provider))
    /\ srcQueue' = <<>>
    /\ sent' = None
    /\ UNCHANGED <<repoVars, inputVars, chatResult, sdkVars, postVars, upstreamCalls, nEvents, usageVar, emitted,
                   reported, srcClosed, teeVars, clientVars, collVars, logged,
                   dbVars, txVars>>

\* ------------------------------------------------------------------ chat()
\* chat(request): ChatSchema.parse throws ZodError, getProvider() throws
\* LLMProviderError.
ChatRejected ==
    /\ IsSome(request)
    /\ ChatSchemaIssues(Get(request)) # {} \/ GetProvider(config) # "ok"
    /\ chatResult' = Some(ChatThrew(IF ChatSchemaIssues(Get(request)) # {}
                                    THEN "ZodError" ELSE "LLMProviderError"))
    /\ request' = None
    /\ UNCHANGED <<repoVars, config, route, sdkVars, postVars, provVars, srcVars, teeVars, clientVars,
                   collVars, logged, dbVars, txVars>>

\* chat(request) -> provider.chat(validated): one backend call, answered
\* with resp.
ChatCall(resp) ==
    /\ IsSome(request)
    /\ ChatSchemaIssues(Get(request)) = {}
    /\ GetProvider(config) = "ok"
    /\ resp \in (IF config.provider = "openai" THEN OpenAIResponses
                 ELSE AnthropicResponses)
    /\ chatResult' = Some(IF config.provider = "openai" THEN OpenAIChat(resp)
                          ELSE AnthropicChat(resp))
    /\ upstreamCalls' = upstreamCalls + 1
    /\ request' = None
    /\ sent' = Some(BackendPayload(config.provider, ChatSchemaParse(Get(request))))
    /\ UNCHANGED <<repoVars, config, route, sdkVars, postVars, provPc, nEvents, usageVar, emitted, reported,
                   srcVars, teeVars, clientVars, collVars, logged, dbVars, txVars>>

\* The backend call of chat() rejects: an APIError is rethrown as
\* LLMAPIError, anything else as it is.
ChatCallFails(err) ==
    /\ IsSome(request)
    /\ ChatSchemaIssues(Get(request)) = {}
    /\ GetProvider(config) = "ok"
    /\ chatResult' = Some(ChatThrew(MapBackendError(err, config.provider).kind))
    /\ upstreamCalls' = upstreamCalls + 1
    /\ request' = None
    /\ sent' = Some(BackendPayload(config.provider, ChatSchemaParse(Get(request))))
    /\ UNCHANGED <<repoVars, config, route, sdkVars, postVars, provPc, nEvents, usageVar, emitted, reported,
                   srcVars, teeVars, clientVars, collVars, logged, dbVars, txVars>>

\* provider.chat(request) or provider.chatStream(request) called on the
\* adapter LLM_PROVIDER names while it holds no client: both methods begin
\* with `if (!this.client) throw new LLMAPIError(message, this.getName())`,
\* before ChatSchema.parse and before any backend call.
AdapterCallUnconfigured ==
    /\ IsSome(request)
    /\ config.provider \in ProviderNames
    /\ ~IsConfigured(config, config.provider)
    /\ chatResult' = Some(ChatThrew("LLMAPIError"))
    /\ request' = None
    /\ UNCHANGED <<repoVars, config, route, sdkVars, postVars, provVars, srcVars, teeVars, clientVars,
                   collVars, logged, dbVars, txVars>>

\* --------------------------------------------------------- llmStream.tee()
\* A branch still takes chunks: not cancelled, not closed, not errored.
BranchReadable(b) == ~cancelled[b] /\ ~brClosed[b] /\ brError[b] = None

\* Mutant of TeePullWanted: the tee reads on only when both branches have
\* drained, so the slower consumer paces the faster one.
TeePullWanted_Lockstep ==
    /\ \E b \in Branches : BranchReadable(b)
    /\ \A b \in Branches : BranchReadable(b) => queue[b] = <<>>

\* The tee reads the provider's stream whenever a branch asks for a chunk,
\* which a branch does while its own queue is empty; the other branch's
\* queue takes the chunk as well, however long it is.
TeePullWanted == \E b \in Branches : BranchReadable(b) /\ queue[b] = <<>>

\* Mutant of TeePull: the collector branch takes the chunk at the front of
\* its queue instead of the back.
TeePull_Reorder ==
    /\ TeePullWanted
    /\ srcQueue # <<>>
    /\ srcQueue' = Tail(srcQueue)
    /\ queue' = [b \in Branches |->
                    IF ~BranchReadable(b) THEN queue[b]
                    ELSE IF b = "collector" THEN <<Head(srcQueue)>> \o queue[b]
                    ELSE Append(queue[b], Head(srcQueue))]
    /\ UNCHANGED <<repoVars, inputVars, chatResult, sdkVars, postVars, provVars, srcClosed, srcError, brClosed,
                   brError, cancelled, clientVars, collVars, logged, dbVars, txVars>>

\* The tee's read delivers the next chunk to every branch not cancelled.
TeePull ==
    /\ TeePullWanted
    /\ srcQueue # <<>>
    /\ srcQueue' = Tail(srcQueue)
    /\ queue' = [b \in Branches |->
                    IF BranchReadable(b) THEN Append(queue[b], Head(srcQueue))
                    ELSE queue[b]]
    /\ UNCHANGED <<repoVars, inputVars, chatResult, sdkVars, postVars, provVars, srcClosed, srcError, brClosed,
                   brError, cancelled, clientVars, collVars, logged, dbVars, txVars>>

\* The tee's read finds the provider's stream closed and drained: both
\* branches are closed (each ends once its own queue is drained).
TeeClose ==
    /\ TeePullWanted
    /\ srcQueue = <<>>
    /\ srcClosed
    /\ brClosed' = [b \in Branches |-> brClosed[b] \/ BranchReadable(b)]
    /\ UNCHANGED <<repoVars, inputVars, chatResult, sdkVars, postVars, provVars, srcVars, queue, brError,
                   cancelled, clientVars, collVars, logged, dbVars, txVars>>

\* Mutant of TeeError: the failure is swallowed and the branches are closed
\* as if the generation had ended.
TeeError_AsClose ==
    /\ IsSome(srcError)
    /\ \E b \in Branches : BranchReadable(b)
    /\ brClosed' = [b \in Branches |-> brClosed[b] \/ BranchReadable(b)]
    /\ UNCHANGED <<repoVars, inputVars, chatResult, sdkVars, postVars, provVars, srcVars, queue, brError,
                   cancelled, clientVars, collVars, logged, dbVars, txVars>>

\* The provider's stream errored: both branches are errored with the same
\* reason, and each branch's queue is discarded.
TeeError ==
    /\ IsSome(srcError)
    /\ \E b \in Branches : BranchReadable(b)
    /\ brError' = [b \in Branches |->
                      IF BranchReadable(b) THEN srcError ELSE brError[b]]
    /\ queue' = [b \in Branches |->
                    IF BranchReadable(b) THEN <<>> ELSE queue[b]]
    /\ UNCHANGED <<repoVars, inputVars, chatResult, sdkVars, postVars, provVars, srcVars, brClosed, cancelled,
                   clientVars, collVars, logged, dbVars, txVars>>

\* --------------------------------------- the caller reading the Response body
ClientRead ==
    /\ clientState = "reading"
    /\ queue["client"] # <<>>
    /\ clientReceived' = Append(clientReceived, Head(queue["client"]))
    /\ queue' = [queue EXCEPT !["client"] = Tail(@)]
    /\ UNCHANGED <<repoVars, inputVars, chatResult, sdkVars, postVars, provVars, srcVars, brClosed, brError,
                   cancelled, clientState, collVars, logged, dbVars, txVars>>

ClientSeeClose ==
    /\ clientState = "reading"
    /\ queue["client"] = <<>>
    /\ brClosed["client"]
    /\ clientState' = "closed"
    /\ UNCHANGED <<repoVars, inputVars, chatResult, sdkVars, postVars, provVars, srcVars, teeVars,
                   clientReceived, collVars, logged, dbVars, txVars>>

ClientSeeError ==
    /\ clientState = "reading"
    /\ IsSome(brError["client"])
    /\ clientState' = "errored"
    /\ UNCHANGED <<repoVars, inputVars, chatResult, sdkVars, postVars, provVars, srcVars, teeVars,
                   clientReceived, collVars, logged, dbVars, txVars>>

\* Mutant of ClientCancel: the disconnect is passed through the tee, which
\* ends the collector's branch as well.
ClientCancel_EndsCollector ==
    /\ clientState = "reading"
    /\ brError["client"] = None
    /\ clientState' = "cancelled"
    /\ cancelled' = [cancelled EXCEPT !["client"] = TRUE]
    /\ queue' = [b \in Branches |-> <<>>]
    /\ brClosed' = [brClosed EXCEPT !["collector"] = TRUE]
    /\ UNCHANGED <<repoVars, inputVars, chatResult, sdkVars, postVars, provVars, srcVars, brError,
                   clientReceived, collVars, logged, dbVars, txVars>>

\* The caller disconnects: the client branch is cancelled.
ClientCancel ==
    /\ clientState = "reading"
    /\ brError["client"] = None
    /\ clientState' = "cancelled"
    /\ cancelled' = [cancelled EXCEPT !["client"] = TRUE]
    /\ queue' = [queue EXCEPT !["client"] = <<>>]
    /\ UNCHANGED <<repoVars, inputVars, chatResult, sdkVars, postVars, provVars, srcVars, brClosed, brError,
                   clientReceived, collVars, logged, dbVars, txVars>>

\* --------------------------------------------------- collectAndSaveResponse
\* Mutant of CollectContent: the new text is put in front of the buffer.
CollectContent_Prepend(content, value) ==
    IF value.done THEN content ELSE value.content \o content

\* The loop body for one chunk read.
CollectContent(content, value) ==
    IF value.done THEN content ELSE content \o value.content

CollectTokens(tokens, value) ==
    IF value.done
    THEN (IF IsSome(value.usage) THEN Get(value.usage).completionTokens ELSE 0)
    ELSE tokens

CollectFinishReason(reason, value) ==
    IF value.done
    THEN (IF value.finishReason = "undefined" THEN "null" ELSE value.finishReason)
    ELSE reason

CollectorRead ==
    /\ collPc = "reading"
    /\ queue["collector"] # <<>>
    /\ LET value == Head(queue["collector"]) IN
         /\ collReceived' = Append(collReceived, value)
         /\ assistantContent' = CollectContent(assistantContent, value)
         /\ completionTokens' = CollectTokens(completionTokens, value)
         /\ finishReason' = CollectFinishReason(finishReason, value)
    /\ queue' = [queue EXCEPT !["collector"] = Tail(@)]
    /\ UNCHANGED <<repoVars, inputVars, chatResult, sdkVars, postVars, provVars, srcVars, brClosed, brError,
                   cancelled, clientVars, collPc, logged, dbVars, txVars>>

\* read() returns done: the loop ends and the transaction begins.
CollectorEnd ==
    /\ collPc = "reading"
    /\ queue["collector"] = <<>>
    /\ brClosed["collector"]
    /\ collPc' = "saving"
    /\ txPc' = "find"
    /\ UNCHANGED <<repoVars, inputVars, chatResult, sdkVars, postVars, provVars, srcVars, teeVars, clientVars,
                   collReceived, assistantContent, completionTokens, finishReason,
                   logged, dbVars, txChat, txMessages>>

\* Mutant of LogSaveFailure: the failure is passed on to the client stream.
LogSaveFailure_Disrupt ==
    /\ logged' = logged \cup {"Error collecting and saving response",
                              "Failed to save messages to database"}
    /\ brError' = [brError EXCEPT !["client"] =
                      Some([kind |-> "Error", provider |-> "", statusCode |-> None])]
    /\ queue' = [queue EXCEPT !["client"] = <<>>]
    /\ UNCHANGED <<postVars, brClosed, cancelled, clientVars>>

\* catch in collectAndSaveResponse logs and rethrows; POST's .catch logs.
\* Nothing else is touched: not the Response, not the client branch.
LogSaveFailure ==
    /\ logged' = logged \cup {"Error collecting and saving response",
                              "Failed to save messages to database"}
    /\ UNCHANGED <<postVars, teeVars, clientVars>>

\* read() rejects because the branch is errored.
CollectorStreamError ==
    /\ collPc = "reading"
    /\ IsSome(brError["collector"])
    /\ collPc' = "failed"
    /\ LogSaveFailure
    /\ UNCHANGED <<repoVars, inputVars, chatResult, sdkVars, provVars, srcVars, collReceived, assistantContent,
                   completionTokens, finishReason, dbVars, txVars>>

\* ------------------------------------------------- prisma.$transaction(...)
JobChatId == Get(job).chatId

\* tx.chat.findUnique
TxFindChat ==
    /\ txPc = "find"
    /\ txPc' = IF IsSome(dbChats[JobChatId]) THEN "user" ELSE "create"
    /\ UNCHANGED <<repoVars, inputVars, chatResult, sdkVars, postVars, provVars, srcVars, teeVars, clientVars,
                   collVars, logged, dbVars, txChat, txMessages>>

\* Mutant of TxCreateChat: the title is the whole message.
TxCreateChat_WholeMessage ==
    /\ txPc = "create"
    /\ dbChats[JobChatId] = None
    /\ txChat' = Some([id |-> JobChatId, userId |-> Get(job).userId,
                       title |-> Get(job).userMessageContent,
                       createdAt |-> clock, updatedAt |-> clock])
    /\ clock' = clock + 1
    /\ txPc' = "user"
    /\ UNCHANGED <<repoVars, inputVars, chatResult, sdkVars, postVars, provVars, srcVars, teeVars, clientVars,
                   collVars, logged, dbChats, dbMessages, txMessages>>

\* tx.chat.create
TxCreateChat ==
    /\ txPc = "create"
    /\ dbChats[JobChatId] = None
    /\ txChat' = Some([id |-> JobChatId, userId |-> Get(job).userId,
                       title |-> Substring(Get(job).userMessageContent, TitleLength),
                       createdAt |-> clock, updatedAt |-> clock])
    /\ clock' = clock + 1
    /\ txPc' = "user"
    /\ UNCHANGED <<repoVars, inputVars, chatResult, sdkVars, postVars, provVars, srcVars, teeVars, clientVars,
                   collVars, logged, dbChats, dbMessages, txMessages>>

\* Mutant of TxCreateUserMessage: the row is written outside the transaction.
TxCreateUserMessage_Autocommit ==
    /\ txPc = "user"
    /\ dbMessages' = Append(dbMessages,
                            [id |-> NewMessageId(clock, 1),
                             chatId |-> JobChatId, role |-> "user",
                             content |-> Get(job).userMessageContent,
                             tokens |-> None, createdAt |-> clock])
    /\ clock' = clock + 1
    /\ txPc' = "assistant"
    /\ UNCHANGED <<repoVars, inputVars, chatResult, sdkVars, postVars, provVars, srcVars, teeVars, clientVars,
                   collVars, logged, dbChats, txChat, txMessages>>

\* tx.message.create, role "user"
TxCreateUserMessage ==
    /\ txPc = "user"
    /\ txMessages' = Append(txMessages,
                            [id |-> NewMessageId(clock, 1),
                             chatId |-> JobChatId, role |-> "user",
                             content |-> Get(job).userMessageContent,
                             tokens |-> None, createdAt |-> clock])
    /\ clock' = clock + 1
    /\ txPc' = "assistant"
    /\ UNCHANGED <<repoVars, inputVars, chatResult, sdkVars, postVars, provVars, srcVars, teeVars, clientVars,
                   collVars, logged, dbChats, dbMessages, txChat>>

\* tx.message.create, role "assistant"
TxCreateAssistantMessage ==
    /\ txPc = "assistant"
    /\ txMessages' = Append(txMessages,
                            [id |-> NewMessageId(clock, 1),
                             chatId |-> JobChatId, role |-> "assistant",
                             content |-> assistantContent,
                             tokens |-> Some(completionTokens),
                             createdAt |-> clock])
    /\ clock' = clock + 1
    /\ txPc' = "update"
    /\ UNCHANGED <<repoVars, inputVars, chatResult, sdkVars, postVars, provVars, srcVars, teeVars, clientVars,
                   collVars, logged, dbChats, dbMessages, txChat>>

\* tx.chat.update({ updatedAt: new Date() })
TxUpdateChat ==
    /\ txPc = "update"
    /\ LET row == IF IsSome(txChat) THEN Get(txChat) ELSE Get(dbChats[JobChatId])
       IN txChat' = Some([row EXCEPT !.updatedAt = clock])
    /\ clock' = clock + 1
    /\ txPc' = "commit"
    /\ UNCHANGED <<repoVars, inputVars, chatResult, sdkVars, postVars, provVars, srcVars, teeVars, clientVars,
                   collVars, logged, dbChats, dbMessages, txMessages>>

\* The callback returned: every write of the transaction becomes visible at
\* once; the success line is logged.
TxCommit ==
    /\ txPc = "commit"
    /\ dbChats' = [dbChats EXCEPT ![JobChatId] = txChat]
    /\ dbMessages' = dbMessages \o txMessages
    /\ txChat' = None
    /\ txMessages' = <<>>
    /\ txPc' = "committed"
    /\ collPc' = "saved"
    /\ logged' = logged \cup {"Saved messages"}
    /\ UNCHANGED <<repoVars, inputVars, chatResult, sdkVars, postVars, provVars, srcVars, teeVars, clientVars,
                   collReceived, assistantContent, completionTokens, finishReason,
                   clock>>

\* Any statement of the transaction, or its commit, throws: the transaction
\* is rolled back and none of its writes becomes visible.
TxFail ==
    /\ txPc \in {"find", "create", "user", "assistant", "update", "commit"}
    /\ txChat' = None
    /\ txMessages' = <<>>
    /\ txPc' = "rolledback"
    /\ collPc' = "failed"
    /\ LogSaveFailure
    /\ UNCHANGED <<repoVars, inputVars, chatResult, sdkVars, provVars, srcVars, collReceived, assistantContent,
                   completionTokens, finishReason, dbVars>>

\* ----------------------------------------------------- POST, route "sdk"
\* requestSchema.parse throws ZodError -> 400 "Invalid request format".
SdkPostRejectValidation ==
    /\ route = "sdk"
    /\ IsSome(request)
    /\ RequestSchemaIssues(Get(request)) # {}
    /\ response' = Respond(400, "Invalid request format", "")
    /\ request' = None
    /\ UNCHANGED <<repoVars, config, route, chatResult, sdkVars, job, chatStreamCalls,
                   provVars, srcVars, teeVars, clientVars, collVars, logged,
                   dbVars, txVars>>

\* No last message, or it is not a user message -> 400.
SdkPostRejectLastMessage ==
    /\ route = "sdk"
    /\ IsSome(request)
    /\ RequestSchemaIssues(Get(request)) = {}
    /\ IF Get(request).messages = <<>> THEN TRUE
       ELSE Last(Get(request).messages).role # "user"
    /\ response' = Respond(400, "Last message must be from user", "")
    /\ request' = None
    /\ UNCHANGED <<repoVars, config, route, chatResult, sdkVars, job, chatStreamCalls,
                   provVars, srcVars, teeVars, clientVars, collVars, logged,
                   dbVars, txVars>>

\* streamText({..., onFinish}) is called once and its data stream response
\* is returned; any LLM_PROVIDER other than "anthropic" selects OpenAI.
SdkPostAccept ==
    /\ route = "sdk"
    /\ IsSome(request)
    /\ RequestSchemaIssues(Get(request)) = {}
    /\ Get(request).messages # <<>>
    /\ Last(Get(request).messages).role = "user"
    /\ upstreamCalls' = upstreamCalls + 1
    /\ sent' = None
    /\ sdkPc' = "streaming"
    /\ job' = Some([chatId |-> Get(request).chatId,
                    userId |-> Get(request).userId,
                    userMessageContent |-> Last(Get(request).messages).content,
                    provider |-> config.provider])
    /\ response' = Respond(200, "", config.provider)
    /\ clientState' = "reading"
    /\ request' = None
    /\ UNCHANGED <<repoVars, config, route, chatResult, savePc, chatStreamCalls, provPc,
                   nEvents, usageVar, emitted, reported, srcVars, teeVars,
                   clientReceived, collVars, logged, dbVars, txVars>>

\* streamText writes one text part to the response stream.
SdkDelta(text) ==
    /\ sdkPc = "streaming"
    /\ nEvents < MaxEvents
    /\ nEvents' = nEvents + 1
    /\ emitted' = Append(emitted, ContentChunk(text, ""))
    /\ queue' = [queue EXCEPT !["client"] =
                    IF BranchReadable("client")
                    THEN Append(@, ContentChunk(text, "")) ELSE @]
    /\ UNCHANGED <<repoVars, inputVars, chatResult, sdkVars, postVars, upstreamCalls, sent, provPc,
                   usageVar, reported, srcVars, brClosed, brError, cancelled,
                   clientVars, collVars, logged, dbVars, txVars>>

\* The generation finished: onFinish({ text, ... }) is called with the whole
\* text and calls saveChat.
SdkFinish ==
    /\ sdkPc = "streaming"
    /\ sdkPc' = "finished"
    /\ assistantContent' = ConcatContent(emitted)
    /\ savePc' = "find"
    /\ UNCHANGED <<repoVars, inputVars, chatResult, postVars, provVars, srcVars, teeVars,
                   clientVars, collPc, collReceived, completionTokens,
                   finishReason, logged, dbVars, txVars>>

\* The response stream ends; streamText may do this before or after onFinish
\* has returned.
SdkCloseResponse ==
    /\ sdkPc = "finished"
    /\ BranchReadable("client")
    /\ brClosed' = [brClosed EXCEPT !["client"] = TRUE]
    /\ UNCHANGED <<repoVars, inputVars, chatResult, sdkVars, postVars, provVars, srcVars,
                   queue, brError, cancelled, clientVars, collVars, logged,
                   dbVars, txVars>>

\* The generation failed: the response stream errors, onFinish is not called.
SdkError(err) ==
    /\ sdkPc = "streaming"
    /\ sdkPc' = "errored"
    /\ brError' = [brError EXCEPT !["client"] =
                      IF BranchReadable("client")
                      THEN Some(MapBackendError(err, "openai")) ELSE @]
    /\ queue' = [queue EXCEPT !["client"] =
                    IF BranchReadable("client") THEN <<>> ELSE @]
    /\ UNCHANGED <<repoVars, inputVars, chatResult, savePc, postVars, provVars, srcVars,
                   brClosed, cancelled, clientVars, collVars, logged, dbVars,
                   txVars>>

\* ------------------------------------------------------------------ saveChat
\* tx.chat.findUnique
SaveFindChat ==
    /\ savePc = "find"
    /\ savePc' = IF IsSome(dbChats[JobChatId]) THEN "many" ELSE "create"
    /\ UNCHANGED <<repoVars, inputVars, chatResult, sdkPc, postVars, provVars, srcVars,
                   teeVars, clientVars, collVars, logged, dbVars, txVars>>

\* The messages onFinish passes to saveChat.
SaveChatMessages ==
    <<[role |-> "user", content |-> Get(job).userMessageContent],
      [role |-> "assistant", content |-> assistantContent]>>

\* tx.chat.create
SaveCreateChat ==
    /\ savePc = "create"
    /\ dbChats[JobChatId] = None
    /\ txChat' = Some([id |-> JobChatId, userId |-> Get(job).userId,
                       title |-> SaveChatTitle(None, SaveChatMessages),
                       createdAt |-> clock, updatedAt |-> clock])
    /\ clock' = clock + 1
    /\ savePc' = "many"
    /\ UNCHANGED <<repoVars, inputVars, chatResult, sdkPc, postVars, provVars, srcVars,
                   teeVars, clientVars, collVars, logged, dbChats, dbMessages,
                   txPc, txMessages>>

\* tx.message.createMany({ data, skipDuplicates: true }): one statement; the
\* data carries no id, so each row gets a new one.
SaveCreateMany ==
    /\ savePc = "many"
    /\ txMessages' = txMessages \o
          SkipDuplicates(
              [i \in 1..Len(SaveChatMessages) |->
                  [id |-> NewMessageId(clock, i),
                   chatId |-> JobChatId, role |-> SaveChatMessages[i].role,
                   content |-> SaveChatMessages[i].content, tokens |-> None,
                   createdAt |-> clock]],
              dbMessages)
    /\ clock' = clock + 1
    /\ savePc' = "commit"
    /\ UNCHANGED <<repoVars, inputVars, chatResult, sdkPc, postVars, provVars, srcVars,
                   teeVars, clientVars, collVars, logged, dbChats, dbMessages,
                   txPc, txChat>>

\* The callback returned: the transaction commits, onFinish logs the save.
SaveCommit ==
    /\ savePc = "commit"
    /\ dbChats' = [dbChats EXCEPT ![JobChatId] = IF IsSome(txChat) THEN txChat ELSE @]
    /\ dbMessages' = dbMessages \o txMessages
    /\ txChat' = None
    /\ txMessages' = <<>>
    /\ savePc' = "committed"
    /\ logged' = logged \cup {"Chat saved"}
    /\ UNCHANGED <<repoVars, inputVars, chatResult, sdkPc, postVars, provVars, srcVars,
                   teeVars, clientVars, collVars, clock, txPc>>

\* onFinish: catch (error) { console.error("Failed to save chat:", error) }
LogSaveChatFailure ==
    /\ logged' = logged \cup {"Failed to save chat"}
    /\ UNCHANGED <<postVars, teeVars, clientVars>>

\* A statement of saveChat's transaction, or its commit, throws: rollback.
SaveFail ==
    /\ savePc \in {"find", "create", "many", "commit"}
    /\ txChat' = None
    /\ txMessages' = <<>>
    /\ savePc' = "rolledback"
    /\ LogSaveChatFailure
    /\ UNCHANGED <<repoVars, inputVars, chatResult, sdkPc, provVars, srcVars, collVars,
                   dbVars, txPc>>

\* ------------------------------------------- storage operations, per caller
\* The storage operations of the repository called by concurrent callers,
\* one statement per step: the route's transaction (collectAndSaveResponse),
\* saveChat, getOrCreateChat and appendMessage.  A transaction's writes stay
\* in its own txChat / txMessages / txUpdatedAt until it commits; a statement
\* outside a transaction commits at once.  An insert of a Chat id, or an
\* update of a Chat row, waits while another transaction holds an uncommitted
\* write of the same row.
pipeVars == <<inputVars, chatResult, sdkVars, postVars, provVars, srcVars, teeVars,
              clientVars, collVars, logged, txVars>>

RepoUserContent == <<"q">>
RepoAnswer == <<"r">>

Active(d) == calls[d].pc \notin {"idle", "done"}

ChatInsertPending(c, id) ==
    \E d \in Callers \ {c} :
        Active(d) /\ IsSome(calls[d].txChat) /\ Get(calls[d].txChat).id = id

ChatUpdatePending(c, id) ==
    \E d \in Callers \ {c} :
        Active(d) /\ calls[d].chatId = Some(id) /\ IsSome(calls[d].txUpdatedAt)

\* `if (chatId)` on an optional string: undefined and "" are falsy.
Truthy(chatId) == IsSome(chatId) /\ Get(chatId) # ""

RECURSIVE CreationOrders(_)
\* orderBy: { createdAt: "asc" } over a set of rows: every order of the rows
\* in which createdAt never decreases (rows of equal createdAt come in the
\* order the database picks).
CreationOrders(rows) ==
    IF rows = {} THEN {<<>>}
    ELSE UNION {{<<first>> \o rest : rest \in CreationOrders(rows \ {first})} :
                   first \in {r \in rows :
                                \A q \in rows : r.createdAt <= q.createdAt}}

\* The committed messages of a conversation.
MessagesOf(id) ==
    {dbMessages[i] : i \in {j \in 1..Len(dbMessages) : dbMessages[j].chatId = id}}

\* The caller's record becomes rec; a call that has ended is noted.
Step(c, rec) ==
    /\ calls' = [calls EXCEPT ![c] = rec]
    /\ finished' = IF rec.pc = "done" THEN Append(finished, c) ELSE finished

\* The call ends: what a transaction wrote and did not commit is gone.
Ended(call, result) ==
    [call EXCEPT !.pc = "done", !.result = result, !.txChat = None,
                 !.txMessages = <<>>, !.txUpdatedAt = None]

\* Mutant of RepoStart: appendMessage does not validate the role.
RepoStart_NoRoleCheck(c, op, chatId, role) ==
    /\ calls[c].op = "idle"
    /\ op # "getOrCreateChat" => Truthy(chatId)
    /\ op # "appendMessage" => role = "user"
    /\ LET call == [IdleCall EXCEPT !.op = op, !.chatId = chatId, !.role = role,
                                    !.began = Len(finished)]
       IN Step(c, [call EXCEPT !.pc = IF op = "getOrCreateChat" /\ ~Truthy(chatId)
                                      THEN "create" ELSE "find"])
    /\ UNCHANGED <<pipeVars, dbVars>>

\* A caller calls an operation.  appendMessage validates the role before its
\* first statement and throws InvalidMessageRoleError; getOrCreateChat goes
\* to findUnique `if (chatId)`, that is when it is given a non-empty chatId,
\* and to create otherwise.  The other operations are called with the id of
\* a conversation.
RepoStart(c, op, chatId, role) ==
    /\ calls[c].op = "idle"
    /\ op # "getOrCreateChat" => Truthy(chatId)
    /\ op # "appendMessage" => role = "user"
    /\ LET call == [IdleCall EXCEPT !.op = op, !.chatId = chatId, !.role = role,
                                    !.began = Len(finished)]
       IN Step(c, IF op = "appendMessage" /\ role \notin Roles
                  THEN Ended(call, "InvalidMessageRoleError")
                  ELSE [call EXCEPT !.pc = IF op = "getOrCreateChat" /\ ~Truthy(chatId)
                                           THEN "create" ELSE "find"])
    /\ UNCHANGED <<pipeVars, dbVars>>

\* findUnique({ where: { id: chatId } }) reads the committed row;
\* getOrCreateChat includes the conversation's messages ordered by createdAt.
RepoFind(c) ==
    /\ calls[c].pc = "find"
    /\ LET call == calls[c]
           row == dbChats[Get(call.chatId)]
           seen == [call EXCEPT !.found = IsSome(row), !.chat = row]
       IN CASE call.op = "routeTx" ->
                  Step(c, [seen EXCEPT !.pc = IF IsSome(row) THEN "user" ELSE "create"])
            [] call.op = "saveChat" ->
                  Step(c, [seen EXCEPT !.pc = IF IsSome(row) THEN "many" ELSE "create"])
            [] call.op = "getOrCreateChat" ->
                  IF IsSome(row)
                  THEN \E messages \in CreationOrders(MessagesOf(Get(call.chatId))) :
                          Step(c, Ended([seen EXCEPT !.messages = messages], "ok"))
                  ELSE Step(c, Ended(seen, "ChatNotFoundError"))
            [] call.op = "appendMessage" ->
                  Step(c, IF IsSome(row) THEN [seen EXCEPT !.pc = "message"]
                          ELSE Ended(seen, "ChatNotFoundError"))
    /\ UNCHANGED <<pipeVars, dbVars>>

\* chat.create.  In a transaction the given id is inserted: the statement
\* waits while another transaction holds an uncommitted insert of the id and
\* fails on the unique id once the row is committed.  getOrCreateChat without
\* a chatId inserts a row with a fresh cuid() and no title, and returns it.
RepoCreateChat(c) ==
    /\ calls[c].pc = "create"
    /\ LET call == calls[c] IN
       IF call.op = "getOrCreateChat"
       THEN LET id == CHOOSE f \in FreshIds : dbChats[f] = None
                row == [id |-> id, userId |-> None, title |-> <<>>,
                        createdAt |-> clock, updatedAt |-> clock]
            IN /\ dbChats' = [dbChats EXCEPT ![id] = Some(row)]
               /\ clock' = clock + 1
               /\ Step(c, Ended([call EXCEPT !.created = TRUE, !.chat = Some(row)], "ok"))
       ELSE LET id == Get(call.chatId)
                row == [id |-> id, userId |-> None,
                        title |-> IF call.op = "routeTx"
                                  THEN Substring(RepoUserContent, TitleLength)
                                  ELSE SaveChatTitle(None,
                                          <<[role |-> "user", content |-> RepoUserContent]>>),
                        createdAt |-> clock, updatedAt |-> clock]
            IN /\ ~ChatInsertPending(c, id)
               /\ IF IsSome(dbChats[id])
                  THEN Step(c, Ended(call, "UniqueConstraintError")) /\ clock' = clock
                  ELSE /\ Step(c, [call EXCEPT !.txChat = Some(row), !.created = TRUE,
                                               !.chat = Some(row),
                                               !.pc = IF call.op = "routeTx" THEN "user"
                                                      ELSE "many"])
                       /\ clock' = clock + 1
               /\ dbChats' = dbChats
    /\ UNCHANGED <<pipeVars, dbMessages>>

\* The Message rows a statement inserts: the route's transaction inserts the
\* user message and then the assistant message, saveChat both in one
\* createMany with skipDuplicates, appendMessage the one it was given.
RepoMessageRows(call) ==
    LET row(k, role, content, tokens) ==
            [id |-> NewMessageId(clock, k), chatId |-> Get(call.chatId),
             role |-> role, content |-> content, tokens |-> tokens,
             createdAt |-> clock]
    IN CASE call.pc = "user" -> <<row(1, "user", RepoUserContent, None)>>
         [] call.pc = "assistant" -> <<row(1, "assistant", RepoAnswer, Some(0))>>
         [] call.pc = "many" ->
                SkipDuplicates(<<row(1, "user", RepoUserContent, None),
                                 row(2, "assistant", RepoAnswer, None)>>,
                               dbMessages)
         [] call.pc = "message" -> <<row(1, call.role, RepoUserContent, None)>>

\* The ids of the rows a statement inserted; a call keeps those of its own
\* rows in `wrote`.
RowIds(rows) == [i \in 1..Len(rows) |-> rows[i].id]

\* message.create / message.createMany
RepoCreateMessage(c) ==
    /\ calls[c].pc \in {"user", "assistant", "many", "message"}
    /\ LET call == calls[c] IN
       IF call.op = "appendMessage"
       THEN /\ dbMessages' = dbMessages \o RepoMessageRows(call)
            /\ Step(c, [call EXCEPT !.pc = "update",
                                    !.wrote = @ \o RowIds(RepoMessageRows(call))])
       ELSE /\ dbMessages' = dbMessages
            /\ Step(c, [call EXCEPT !.txMessages = @ \o RepoMessageRows(call),
                                    !.wrote = @ \o RowIds(RepoMessageRows(call)),
                                    !.pc = CASE call.pc = "user" -> "assistant"
                                             [] call.pc = "assistant" -> "update"
                                             [] call.pc = "many" -> "commit"])
    /\ clock' = clock + 1
    /\ UNCHANGED <<pipeVars, dbChats>>

\* chat.update({ data: { updatedAt: new Date() } }): waits while another
\* transaction holds an uncommitted update of the row.
RepoUpdateChat(c) ==
    /\ calls[c].pc = "update"
    /\ LET call == calls[c]
           id == Get(call.chatId)
       IN /\ ~ChatUpdatePending(c, id)
          /\ IF call.op = "appendMessage"
             THEN /\ dbChats' = [dbChats EXCEPT ![id] =
                                    Some([Get(@) EXCEPT !.updatedAt = clock])]
                  /\ Step(c, Ended(call, "ok"))
             ELSE /\ dbChats' = dbChats
                  /\ Step(c, IF IsSome(call.txChat)
                             THEN [call EXCEPT !.txChat =
                                      Some([Get(@) EXCEPT !.updatedAt = clock]),
                                   !.pc = "commit"]
                             ELSE [call EXCEPT !.txUpdatedAt = Some(clock),
                                               !.pc = "commit"])
    /\ clock' = clock + 1
    /\ UNCHANGED <<pipeVars, dbMessages>>

\* The transaction's callback returned: its writes become visible at once.
RepoCommit(c) ==
    /\ calls[c].pc = "commit"
    /\ LET call == calls[c]
           id == Get(call.chatId)
       IN /\ dbChats' = [dbChats EXCEPT ![id] =
                IF IsSome(call.txChat) THEN call.txChat
                ELSE IF IsSome(call.txUpdatedAt)
                THEN Some([Get(@) EXCEPT !.updatedAt = Get(call.txUpdatedAt)])
                ELSE @]
          /\ dbMessages' = dbMessages \o call.txMessages
          /\ Step(c, Ended(call, "ok"))
    /\ UNCHANGED <<pipeVars, clock>>

\* A statement, or the commit, throws: a transaction is rolled back, an
\* operation outside a transaction stops with what it has written so far.
RepoFail(c) ==
    /\ Active(c)
    /\ Step(c, Ended(calls[c], "failed"))
    /\ UNCHANGED <<pipeVars, dbVars>>

\* ----------------------------------------------------------- specification
\* The request pipeline: POST, the provider stream, the tee, both consumers
\* and the transaction.
Next ==
    \/ PostRejectValidation
    \/ PostRejectLastMessage
    \/ PostRejectProvider
    \/ PostAccept
    \/ BackendConnect
    \/ \E ev \in StreamOpenAIEvents : OpenAIEvent(ev)
    \/ \E ev \in AnthropicEvents, m \in StreamFinalMessages : AnthropicEvent(ev, m)
    \/ BackendEnd
    \/ \E err \in BackendErrors : BackendFail(err)
    \/ TeePull
    \/ TeeClose
    \/ TeeError
    \/ ClientRead
    \/ ClientSeeClose
    \/ ClientSeeError
    \/ ClientCancel
    \/ CollectorRead
    \/ CollectorEnd
    \/ CollectorStreamError
    \/ TxFindChat
    \/ TxCreateChat
    \/ TxCreateUserMessage
    \/ TxCreateAssistantMessage
    \/ TxUpdateChat
    \/ TxCommit
    \/ TxFail
    \/ SdkPostRejectValidation
    \/ SdkPostRejectLastMessage
    \/ SdkPostAccept
    \/ \E text \in Texts : SdkDelta(text)
    \/ SdkFinish
    \/ SdkCloseResponse
    \/ \E err \in BackendErrors : SdkError(err)
    \/ SaveFindChat
    \/ SaveCreateChat
    \/ SaveCreateMany
    \/ SaveCommit
    \/ SaveFail

Spec == Init /\ [][Next]_vars

\* The adapters alone, over every backend event, usage block and stop
\* reason: what a provider's stream is made to hold, nothing reading it.
AdapterNext ==
    \/ ChatRejected
    \/ AdapterCallUnconfigured
    \/ \E resp \in OpenAIResponses \cup AnthropicResponses : ChatCall(resp)
    \/ \E err \in BackendErrors : ChatCallFails(err)
    \/ PostRejectValidation
    \/ PostRejectLastMessage
    \/ PostRejectProvider
    \/ PostAccept
    \/ BackendConnect
    \/ \E ev \in OpenAIEvents : OpenAIEvent(ev)
    \/ \E ev \in AnthropicEvents, m \in FinalMessages : AnthropicEvent(ev, m)
    \/ BackendEnd
    \/ \E err \in BackendErrors : BackendFail(err)

AdapterSpec == Init /\ [][AdapterNext]_vars

\* The tee route after a request it accepts, under fair scheduling: the
\* event loop runs every continuation that stays ready (the tee's reads, the
\* collector's loop, the transaction's statements), and the backend call
\* eventually resolves and its event stream eventually ends unless it fails.
\* The caller's reads, the caller's disconnect and failures are not forced.
LiveInit ==
    /\ Init
    /\ route = "llm"
    /\ ChatSchemaIssues(Get(request)) = {}
    /\ Len(Get(request).messages) = 1
    /\ Last(Get(request).messages).role = "user"
    /\ Last(Get(request).messages).content = <<"h", "i">>
    /\ Get(request).system = None
    /\ Get(request).temperature = None
    /\ Get(request).maxTokens = None
    /\ config.provider = "openai"
    /\ GetProvider(config) = "ok"

\* The tee and the collector treat every provider's chunks alike: the OpenAI
\* adapter's events without usage stand for the generation.
LiveOpenAIEvents == {ev \in StreamOpenAIEvents : ev.usage = None}

LiveNext ==
    \/ PostAccept
    \/ BackendConnect
    \/ \E ev \in LiveOpenAIEvents : OpenAIEvent(ev)
    \/ BackendEnd
    \/ \E err \in BackendErrors : BackendFail(err)
    \/ TeePull
    \/ TeeClose
    \/ TeeError
    \/ ClientRead
    \/ ClientSeeClose
    \/ ClientSeeError
    \/ ClientCancel
    \/ CollectorRead
    \/ CollectorEnd
    \/ CollectorStreamError
    \/ TxFindChat
    \/ TxCreateChat
    \/ TxCreateUserMessage
    \/ TxCreateAssistantMessage
    \/ TxUpdateChat
    \/ TxCommit
    \/ TxFail

Fairness ==
    /\ WF_vars(PostAccept)
    /\ WF_vars(BackendConnect)
    /\ WF_vars(BackendEnd)
    /\ WF_vars(TeePull)
    /\ WF_vars(TeeClose)
    /\ WF_vars(TeeError)
    /\ WF_vars(CollectorRead)
    /\ WF_vars(CollectorEnd)
    /\ WF_vars(CollectorStreamError)
    /\ WF_vars(TxFindChat)
    /\ WF_vars(TxCreateChat)
    /\ WF_vars(TxCreateUserMessage)
    /\ WF_vars(TxCreateAssistantMessage)
    /\ WF_vars(TxUpdateChat)
    /\ WF_vars(TxCommit)

LiveSpec == LiveInit /\ [][LiveNext]_vars /\ Fairness

\* The storage operations alone, called by concurrent callers on storage
\* that is empty or holds one conversation; no request is being served.
RepoInit ==
    /\ Init
    /\ route = "llm"
    /\ config = [provider |-> "openai", keys |-> {"openai"}]
    /\ request = Some([chatId |-> "c1", userId |-> None, system |-> None,
                       messages |-> <<[role |-> "user", content |-> <<"h", "i">>]>>,
                       temperature |-> None, maxTokens |-> None])

\* The chatId argument: absent, a conversation id, or the empty string.
RepoChatIds == {None, Some("")} \cup {Some(i) : i \in ChatIds}

RepoNext ==
    \/ \E c \in Callers, op \in RepoOps, chatId \in RepoChatIds,
          role \in {"user", "assistant", "tool"} : RepoStart(c, op, chatId, role)
    \/ \E c \in Callers : RepoFind(c)
    \/ \E c \in Callers : RepoCreateChat(c)
    \/ \E c \in Callers : RepoCreateMessage(c)
    \/ \E c \in Callers : RepoUpdateChat(c)
    \/ \E c \in Callers : RepoCommit(c)
    \/ \E c \in Callers : RepoFail(c)

RepoSpec == RepoInit /\ [][RepoNext]_vars

\* =================================================================== claims
Accepted == IsSome(response) /\ Get(response).status = 200

\* The collector read its branch to the normal end of the stream.
CollectorReadToEnd == collPc \in {"saving", "saved"} \/ txPc = "rolledback"

\* Storage holds nothing written for this request.
NoEffect ==
    /\ \A c \in ChatIds : dbChats[c] \in {None, Some(OldChat)}
    /\ dbMessages \in {<<>>, <<OldMessage>>}

\* Storage holds the conversation of this request and, as its last two rows,
\* the request's user message and then its assistant message, both written
\* by this request.
ExchangeStored ==
    /\ IsSome(job)
    /\ IsSome(dbChats[JobChatId])
    /\ Len(dbMessages) >= 2
    /\ LET u == dbMessages[Len(dbMessages) - 1]
           a == dbMessages[Len(dbMessages)]
       IN /\ u.role = "user" /\ u.content = Get(job).userMessageContent
          /\ u.chatId = JobChatId /\ u.createdAt >= 1
          /\ a.role = "assistant" /\ a.content = assistantContent
          /\ a.chatId = JobChatId /\ a.createdAt >= 1
    /\ \A i \in 1..(Len(dbMessages) - 2) : dbMessages[i] = OldMessage

\* Storage holds all four effects of this request: the three above and an
\* updatedAt set by this request.
AllEffects ==
    /\ ExchangeStored
    /\ Get(dbChats[JobChatId]).updatedAt >= 1

\* C1 (as claimed): whenever a branch has ended, normally or with the
\* provider's failure, its consumer has received every chunk the provider
\* enqueued.
C1_EveryChunkOnEveryEnd ==
    route = "llm" =>
    /\ clientState \in {"closed", "errored"} => clientReceived = emitted
    /\ collPc \in {"saving", "saved", "failed"} => collReceived = emitted

\* C1 (amended): for every interleaving, what a branch has read is a prefix of
\* what the provider enqueued; while the provider has not failed, the chunks
\* read from a branch not cancelled, then those in its queue, then those
\* still in the provider's queue are exactly the chunks enqueued, in order;
\* and a branch read to the normal end of the stream has received them all.
C1_TeeDelivery ==
    /\ IsPrefix(clientReceived, emitted)
    /\ IsPrefix(collReceived, emitted)
    /\ (route = "llm" /\ srcError = None /\ ~cancelled["client"])
          => clientReceived \o queue["client"] \o srcQueue = emitted
    /\ (route = "llm" /\ srcError = None)
          => collReceived \o queue["collector"] \o srcQueue = emitted
    /\ clientState = "closed" => clientReceived = emitted
    /\ CollectorReadToEnd => collReceived = emitted

\* Both branches were read to the normal end and received two different
\* chunks.
C1_Witness ==
    /\ clientState = "closed"
    /\ CollectorReadToEnd
    /\ Len(emitted) >= 2
    /\ emitted[1] # emitted[2]
    /\ clientReceived = emitted
    /\ collReceived = emitted

\* C2: an accepted request makes exactly one upstream generation call (on
\* route "llm" one chatStream call and one backend streaming call, on route
\* "sdk" one streamText call), whatever is read afterwards and whether or not
\* the storage write fails; a rejected request makes none.
C2_OneUpstreamCall ==
    /\ chatStreamCalls = (IF Accepted /\ route = "llm" THEN 1 ELSE 0)
    /\ upstreamCalls = (IF Accepted THEN 1 ELSE 0)

\* Both branches were read, the transaction failed, one call was made.
C2_Witness ==
    /\ upstreamCalls = 1
    /\ txPc = "rolledback"
    /\ Len(clientReceived) >= 2
    /\ Len(collReceived) >= 2

\* C3: once the provider's stream has failed, neither branch ends with a
\* normal close, a branch that errors carries the provider's error, an error
\* on one branch is on every branch not cancelled, and the collector never
\* reaches the transaction: nothing is written.
C3_FailureReachesBoth ==
    IsSome(srcError) =>
        /\ \A b \in Branches : ~brClosed[b]
        /\ clientState \in {"reading", "errored", "cancelled"}
        /\ collPc \in {"reading", "failed"}
        /\ txPc = "idle"
        /\ NoEffect
        /\ (\E b \in Branches : IsSome(brError[b]))
              => \A b \in Branches : ~cancelled[b] => brError[b] = srcError

\* The provider failed after emitting a chunk; both consumers saw the error.
C3_Witness ==
    /\ IsSome(srcError)
    /\ Len(emitted) >= 1
    /\ clientState = "errored"
    /\ collPc = "failed"

C5_SaveFailureOnlyLogged ==
    (txPc = "rolledback" \/ savePc = "rolledback") =>
        /\ txPc = "rolledback" => "Failed to save messages to database" \in logged
        /\ savePc = "rolledback" => "Failed to save chat" \in logged
        /\ Accepted
        /\ brError["client"] = None
        /\ clientState # "errored"
        /\ IsPrefix(clientReceived, emitted)
        /\ ~cancelled["client"]
              => clientReceived \o queue["client"] = emitted
        /\ clientState = "closed" => clientReceived = emitted

\* The write failed while the caller had read some chunks and others were
\* still to be delivered.
C5_Witness ==
    /\ txPc = "rolledback"
    /\ clientState = "reading"
    /\ clientReceived # <<>>
    /\ queue["client"] # <<>>

\* C6: the collector exists only once the Response has been returned, and
\* the caller never waits for it: while the caller is reading a stream that
\* has not failed, a chunk it has not received can be moved towards it
\* (read from its branch, or pulled by the tee), and once it has received
\* everything of a closed stream it can see the close, whatever the collector
\* has read and whatever the transaction's state.
C6_CollectorDetached ==
    /\ collPc # "none" => Accepted /\ clientState # "none"
    /\ (route = "llm" /\ clientState = "reading" /\ srcError = None
        /\ Len(clientReceived) < Len(emitted))
          => ENABLED ClientRead \/ ENABLED TeePull
    /\ (route = "llm" /\ clientState = "reading" /\ srcClosed
        /\ clientReceived = emitted)
          => ENABLED ClientSeeClose \/ ENABLED TeeClose

\* The caller received two chunks and the close while the collector had read
\* nothing.
C6_Witness ==
    /\ clientState = "closed"
    /\ Len(clientReceived) >= 2
    /\ collPc = "reading"
    /\ collReceived = <<>>

\* C7: once the transaction has committed, the assistant message stored is
\* the concatenation of the content of all chunks the provider emitted, in
\* order, which a caller that read to the end received as well; collectStream
\* returns the same concatenation for a stream that closed normally.
C7_PersistedIsConcatenation ==
    /\ provPc = "closed" => CollectStream(emitted).content = ConcatContent(emitted)
    /\ txPc = "committed" =>
        /\ dbMessages[Len(dbMessages)].role = "assistant"
        /\ dbMessages[Len(dbMessages)].content = ConcatContent(emitted)
        /\ clientState = "closed"
              => ConcatContent(clientReceived) = dbMessages[Len(dbMessages)].content

\* A committed answer made of two different chunks.
C7_Witness ==
    /\ txPc = "committed"
    /\ Len(dbMessages[Len(dbMessages)].content) >= 2
    /\ dbMessages[Len(dbMessages)].content[1] # dbMessages[Len(dbMessages)].content[2]
    /\ clientState = "closed"

\* Every final chunk emitted and every non-streaming response.
FinalUsages ==
    {emitted[i].usage : i \in {j \in 1..Len(emitted) : emitted[j].done}}
    \cup (IF IsSome(chatResult) /\ Get(chatResult).outcome = "ok"
          THEN {Get(chatResult).usage} ELSE {})

\* C8 (as claimed): when the provider's stream has closed normally, exactly
\* one emitted chunk has done = TRUE and it is the last one.
C8_ExactlyOneFinalChunkLast ==
    provPc = "closed" =>
        /\ Len(emitted) >= 1
        /\ Last(emitted).done
        /\ \A i \in 1..(Len(emitted) - 1) : ~emitted[i].done

\* C9 (as claimed): when the provider's stream has closed normally and the
\* backend delivered usage, every chunk with done = TRUE carries the latest
\* usage the backend delivered.
C9_FinalChunkCarriesUsage ==
    (provPc = "closed" /\ IsSome(reported)) =>
        \A i \in 1..Len(emitted) : emitted[i].done => emitted[i].usage = reported

\* C10 (as claimed): on every final chunk that has usage and on every
\* non-streaming response, totalTokens = promptTokens + completionTokens and
\* none of the three is negative.
C10_TotalIsSum ==
    \A u \in FinalUsages :
        IsSome(u) =>
            /\ Get(u).totalTokens = Get(u).promptTokens + Get(u).completionTokens
            /\ Get(u).promptTokens >= 0
            /\ Get(u).completionTokens >= 0
            /\ Get(u).totalTokens >= 0

\* C11 (as claimed): the chunks buffered for a tee branch never exceed the
\* fixed bound the streams were made with: the other branch is throttled
\* once the branch's queue has reached it.
C11_BufferBounded ==
    route = "llm" => \A b \in Branches : Len(queue[b]) <= HighWaterMark

\* tee() cancels the stream it reads, and with it the provider's stream, only
\* once both of its branches have been cancelled.
UpstreamCancelled == \A b \in Branches : cancelled[b]

\* C12 (as claimed): once the caller has cancelled the client branch while
\* the provider is still waiting for or iterating the backend's events, the
\* cancellation eventually reaches the provider's stream.
C12_CancelReachesUpstream ==
    (cancelled["client"] /\ provPc \in {"awaiting", "iterating"})
        ~> UpstreamCancelled

\* C13: whatever the caller does with the client branch (reads it, leaves it
\* unread, cancels it mid-stream), what the collector has read is a prefix
\* of what the provider enqueued, nothing enqueued by a provider that has not
\* failed is lost to the collector, a collector that read to the end has
\* every chunk, and a committed transaction holds the whole exchange; and
\* under fair scheduling, once the provider's stream has closed the collector
\* ends with a commit (or a rollback if the database fails), and once the
\* provider's stream has failed the collector ends with that failure.
C13_CollectorUnaffected ==
    /\ [](/\ IsPrefix(collReceived, emitted)
          /\ srcError = None
                => collReceived \o queue["collector"] \o srcQueue = emitted
          /\ ~cancelled["collector"]
          /\ CollectorReadToEnd => collReceived = emitted
          /\ txPc = "committed" => AllEffects /\ assistantContent = ConcatContent(emitted))
    /\ (provPc = "closed") ~> (txPc \in {"committed", "rolledback"})
    /\ (provPc = "errored") ~> (collPc = "failed")

\* The caller disconnected after one of two or more chunks; the collector
\* received them all and the exchange is committed.
C13_Witness ==
    /\ clientState = "cancelled"
    /\ Len(clientReceived) = 1
    /\ Len(emitted) >= 2
    /\ collReceived = emitted
    /\ txPc = "committed"
    /\ AllEffects

\* Nothing of the pipeline has started and storage is as it was.
NothingStarted ==
    /\ upstreamCalls = 0
    /\ chatStreamCalls = 0
    /\ provPc = "idle"
    /\ sdkPc = "idle"
    /\ job = None
    /\ collPc = "none"
    /\ clientState = "none"
    /\ txPc = "idle"
    /\ savePc = "idle"
    /\ emitted = <<>>
    /\ NoEffect

\* The request passes its route's schema.
SchemaValid(input) ==
    IF route = "llm" THEN ChatSchemaIssues(input) = {}
    ELSE RequestSchemaIssues(input) = {}

\* C14: on both routes, the step that handles a well-formed request whose
\* last message is not a user message answers 400 "Last message must be from
\* user", with no provider named in the answer and whatever LLM_PROVIDER and
\* the API keys are; a request whose last message is not a user message is
\* never answered with anything but a 400; and after a 400 no adapter or
\* streamText call has been made, no stream, collector or transaction
\* exists, and storage is unchanged, for ever.
C14_RejectsLastNotUser ==
    /\ [][(/\ IsSome(request)
           /\ Get(request).messages # <<>>
           /\ Last(Get(request).messages).role # "user")
          => /\ IsSome(response')
             /\ Get(response').status = 400
             /\ Get(response').provider = ""
             /\ SchemaValid(Get(request))
                   => Get(response').error = "Last message must be from user"
             /\ NothingStarted']_vars
    /\ []((IsSome(response) /\ Get(response).status = 400) => NothingStarted)

\* Such a request was rejected although no provider could have been selected.
C14_Witness ==
    /\ IsSome(response)
    /\ Get(response).status = 400
    /\ Get(response).error = "Last message must be from user"
    /\ GetProvider(config) # "ok"
    /\ route = "llm"

\* C15 (as claimed): on both routes, the step that handles a request with an
\* empty messages list answers 400 with the schema's validation error, and
\* nothing has been started.
C15_EmptyMessagesInvalid ==
    [][(IsSome(request) /\ Get(request).messages = <<>>)
          => /\ IsSome(response')
             /\ Get(response').status = 400
             /\ Get(response').error \in {"Validation error", "Invalid request format"}
             /\ NothingStarted']_vars

\* C16 (as claimed): a chat or chatStream call made while the adapter has no
\* credential fails with LLMProviderError (or with the ZodError of lib/llm's
\* validation, which comes first there), and no backend call is made.
C16_UnconfiguredIsProviderError ==
    (/\ IsSome(chatResult)
     /\ config.provider \in ProviderNames
     /\ ~IsConfigured(config, config.provider))
        => /\ Get(chatResult).outcome \in {"LLMProviderError", "ZodError"}
           /\ upstreamCalls = 0

\* LLM_PROVIDER names no known provider, or the provider it names has no
\* API key.
NoUsableProvider ==
    \/ config.provider \notin ProviderNames
    \/ ~IsConfigured(config, config.provider)

\* C17: getProvider fails exactly when LLM_PROVIDER names no known provider
\* or the named provider is not configured; the step of the lib/llm route
\* that handles a well-formed request ending in a user message then answers
\* 503 with nothing started; and a request answered 503 was answered so for
\* that reason and never gets a provider stream, a tee branch, a collector
\* or a transaction.
C17_NoProviderIs503 ==
    /\ [](GetProvider(config) # "ok" <=> NoUsableProvider)
    /\ [][(/\ route = "llm"
           /\ IsSome(request)
           /\ ChatSchemaIssues(Get(request)) = {}
           /\ Last(Get(request).messages).role = "user"
           /\ NoUsableProvider)
          => /\ response' = Respond(503, "Provider configuration error", "")
             /\ NothingStarted']_vars
    /\ []((IsSome(response) /\ Get(response).status = 503)
             => /\ NoUsableProvider
                /\ NothingStarted
                /\ \A b \in Branches : queue[b] = <<>> /\ ~brClosed[b])

\* A request was answered 503 because the named provider has no API key.
C17_Witness ==
    /\ IsSome(response)
    /\ Get(response).status = 503
    /\ config.provider \in ProviderNames
    /\ ~IsConfigured(config, config.provider)

\* C18 (as claimed): when the backend rejected the generation with a status
\* and the caller has seen the failure, what the caller was answered carries
\* that status and the provider's name.  The caller is answered the Response
\* (status, error body, X-Provider) and the chunks of its body; the reason a
\* body stream errored with stays in the server.
C18_CallerGetsUpstreamStatus ==
    (/\ route = "llm"
     /\ IsSome(srcError)
     /\ Get(srcError).kind = "LLMAPIError"
     /\ clientState = "errored")
        => /\ IsSome(response)
           /\ Some(Get(response).status) = Get(srcError).statusCode
           /\ Get(response).provider = Get(srcError).provider

\* The operations that get or create a conversation by id.
GetOrCreateOps == {"routeTx", "saveChat", "getOrCreateChat"}

\* Caller c called a get-or-create with an id no conversation had, ran alone
\* to its end, and caller d then called a get-or-create with the same id and
\* ran to its end; no statement failed for a reason of the database.
TwiceInARow(c, d, ops) ==
    /\ c # d
    /\ Len(finished) >= 2 /\ finished[1] = c /\ finished[2] = d
    /\ calls[c].began = 0 /\ calls[d].began = 1
    /\ calls[c].op \in ops /\ calls[d].op \in ops
    /\ IsSome(calls[c].chatId) /\ calls[d].chatId = calls[c].chatId
    /\ ~calls[c].found
    /\ calls[c].result # "failed" /\ calls[d].result # "failed"

\* The first call created the conversation, the second did not, and the
\* second ended with the conversation the first created, owner and title
\* as they were, which is what storage holds.
CreatedOnce(c, d) ==
    /\ calls[c].result = "ok" /\ calls[d].result = "ok"
    /\ calls[c].created /\ ~calls[d].created
    /\ IsSome(calls[c].chat) /\ IsSome(calls[d].chat)
    /\ LET first == Get(calls[c].chat)
           second == Get(calls[d].chat)
           stored == dbChats[Get(calls[c].chatId)]
       IN /\ second.id = first.id
          /\ second.userId = first.userId /\ second.title = first.title
          /\ IsSome(stored)
          /\ Get(stored).userId = first.userId /\ Get(stored).title = first.title

\* C19 (as claimed): get-or-create by id, called twice in a row with an id
\* no conversation had, creates the conversation exactly once and the second
\* call ends with the same conversation, owner and title unmodified.
C19_GetOrCreateIdempotent ==
    \A c, d \in Callers : TwiceInARow(c, d, GetOrCreateOps) => CreatedOnce(c, d)

\* C20 (as claimed): once every operation called has ended, none of them on
\* a failure of the database, every stored message belongs to a stored
\* conversation whose updatedAt is not older than the message's creation
\* time.
C20_UpdatedAtCoversMessages ==
    (\A c \in Callers : ~Active(c) /\ calls[c].result # "failed")
        => \A i \in 1..Len(dbMessages) :
              /\ IsSome(dbChats[dbMessages[i].chatId])
              /\ Get(dbChats[dbMessages[i].chatId]).updatedAt >= dbMessages[i].createdAt

\* The transaction of either route commits in this step.
Commits ==
    \/ txPc # "committed" /\ txPc' = "committed"
    \/ savePc # "committed" /\ savePc' = "committed"

\* C21: the step that accepts a request hands the content of the request's
\* last message to the persistence job, and the step that commits the
\* job's transaction appends exactly two rows to the stored messages, leaving
\* the rows before them as they were: first a user row with that content,
\* then an assistant row with the accumulated text (on route "llm" the
\* concatenation of the chunks the collector read), both in the job's
\* conversation; no other step changes the stored messages.
C21_TwoMessagesAppended ==
    /\ [][(IsSome(request) /\ IsSome(job'))
             => Get(job').userMessageContent = Last(Get(request).messages).content]_vars
    /\ [][IF Commits
          THEN /\ Len(dbMessages') = Len(dbMessages) + 2
               /\ SubSeq(dbMessages', 1, Len(dbMessages)) = dbMessages
               /\ LET u == dbMessages'[Len(dbMessages) + 1]
                      a == dbMessages'[Len(dbMessages) + 2]
                  IN /\ u.role = "user" /\ u.chatId = JobChatId
                     /\ u.content = Get(job).userMessageContent
                     /\ a.role = "assistant" /\ a.chatId = JobChatId
                     /\ a.content = assistantContent
                     /\ route = "llm" => a.content = ConcatContent(collReceived)
          ELSE dbMessages' = dbMessages]_vars

\* A request on a conversation that held one message was committed: storage
\* holds that message and the two of the request, whose answer is not empty.
C21_Witness ==
    /\ txPc = "committed"
    /\ Len(dbMessages) = 3
    /\ dbMessages[1] = OldMessage
    /\ dbMessages[2].role = "user"
    /\ dbMessages[2].content = LongContent
    /\ dbMessages[3].role = "assistant"
    /\ dbMessages[3].content # <<>>

\* How many of the first i messages are not system messages.
Kept(messages, i) == Cardinality({j \in 1..i : messages[j].role # "system"})

\* C22: in the step in which chat or chatStream of the Anthropic adapter
\* makes its backend call, the message list of the payload holds no system
\* message, holds every other message of the request at the position it has
\* among the request's non-system messages and nothing else, and the
\* payload's system field is the request's system prompt (absent when the
\* request has none).
C22_AnthropicSystemSeparate ==
    [][(/\ IsSome(request)
        /\ config.provider = "anthropic"
        /\ upstreamCalls' # upstreamCalls)
       => /\ IsSome(sent')
          /\ LET messages == Get(request).messages
                 payload == Get(sent')
             IN /\ \A k \in 1..Len(payload.messages) :
                      payload.messages[k].role # "system"
                /\ Len(payload.messages) = Kept(messages, Len(messages))
                /\ \A i \in 1..Len(messages) :
                      messages[i].role # "system"
                         => payload.messages[Kept(messages, i)] = messages[i]
                /\ payload.system = Get(request).system]_vars

\* The Anthropic adapter was called with a system prompt and with messages
\* of which some were system messages: the payload holds fewer messages than
\* the schema's minimum of the request.
C22_Witness ==
    /\ config.provider = "anthropic"
    /\ IsSome(sent)
    /\ Get(sent).system = Some(<<"s">>)
    /\ Get(sent).messages = <<>>
    /\ IsSome(chatResult)
    /\ Get(chatResult).outcome = "ok"

\* ChatResponse["finishReason"] / StreamChunk["finishReason"]
FinishReasons == {"stop", "length", "content_filter", "tool_calls", "null"}

\* C23 (as claimed): the finishReason of every final chunk an adapter
\* enqueued and of every ChatResponse an adapter returned is one of stop,
\* length, content_filter, tool_calls and null, whatever stop signal the
\* backend sent; and the Anthropic mapping takes end_turn and stop_sequence
\* to stop, max_tokens to length, and null and every other signal to null.
C23_FinishReasonInSharedSet ==
    /\ \A i \in 1..Len(emitted) :
          emitted[i].done => emitted[i].finishReason \in FinishReasons
    /\ (IsSome(chatResult) /\ Get(chatResult).outcome = "ok")
          => Get(chatResult).finishReason \in FinishReasons
    /\ MapStopReason("end_turn") = "stop"
    /\ MapStopReason("stop_sequence") = "stop"
    /\ MapStopReason("max_tokens") = "length"
    /\ \A m \in FinalMessages :
          m.stop_reason \notin {"end_turn", "stop_sequence", "max_tokens"}
             => MapStopReason(m.stop_reason) = "null"

\* Caller c called saveChat and ran alone to its end, and caller d then
\* called saveChat with the same chatId and the same messages and ran to its
\* end; both calls returned.
SavedTwice(c, d) ==
    /\ c # d
    /\ Len(finished) >= 2 /\ finished[1] = c /\ finished[2] = d
    /\ calls[c].began = 0 /\ calls[d].began = 1
    /\ calls[c].op = "saveChat" /\ calls[d].op = "saveChat"
    /\ calls[d].chatId = calls[c].chatId
    /\ calls[c].result = "ok" /\ calls[d].result = "ok"

\* The stored messages of conversation id with this role and content.
StoredCopies(id, role, content) ==
    {i \in 1..Len(dbMessages) :
        /\ dbMessages[i].chatId = id
        /\ dbMessages[i].role = role
        /\ dbMessages[i].content = content}

\* C24 (as claimed): after saveChat was called twice in a row with the same
\* chatId and the same two messages, the conversation holds each of the two
\* messages once, and the second call created no chat.
C24_SaveChatSkipsDuplicates ==
    \A c, d \in Callers :
        SavedTwice(c, d)
           => /\ ~calls[d].created
              /\ Cardinality(StoredCopies(Get(calls[c].chatId), "user",
                                          RepoUserContent)) = 1
              /\ Cardinality(StoredCopies(Get(calls[c].chatId), "assistant",
                                          RepoAnswer)) = 1

\* Caller c's appendMessage call has ended.
AppendEnded(c) == calls[c].op = "appendMessage" /\ calls[c].pc = "done"

\* C25: an appendMessage call with a role outside {user, assistant, system}
\* ends with InvalidMessageRoleError, and no other call does; one with a
\* valid role that found no conversation under its id ends with
\* ChatNotFoundError (unless the lookup itself failed), and no other call
\* does; and no step of a call that ends in either error (the call itself and
\* its lookup) changes the stored messages, any conversation or the
\* database clock.
C25_AppendMessageFailsCleanly ==
    /\ [](\A c \in Callers :
            AppendEnded(c) =>
               /\ calls[c].result = "InvalidMessageRoleError"
                     <=> calls[c].role \notin Roles
               /\ calls[c].result = "ChatNotFoundError"
                     => calls[c].role \in Roles /\ ~calls[c].found
               /\ (calls[c].role \in Roles /\ ~calls[c].found)
                     => calls[c].result \in {"ChatNotFoundError", "failed"})
    /\ [][\A c \in Callers :
            (/\ calls'[c] # calls[c]
             /\ calls'[c].op = "appendMessage"
             /\ \/ calls'[c].pc = "find"
                \/ calls'[c].result \in {"InvalidMessageRoleError",
                                         "ChatNotFoundError"})
               => UNCHANGED dbVars]_vars

\* One appendMessage call ended on an absent conversation and another on an
\* invalid role; storage holds no conversation and no message.
C25_Witness ==
    /\ \E c \in Callers : AppendEnded(c) /\ calls[c].result = "ChatNotFoundError"
    /\ \E c \in Callers : AppendEnded(c) /\ calls[c].result = "InvalidMessageRoleError"
    /\ dbMessages = <<>>
    /\ \A id \in StoredIds : dbChats[id] = None

\* Caller c's getOrCreateChat call has ended, and not on a database failure.
GetOrCreateEnded(c) ==
    /\ calls[c].op = "getOrCreateChat"
    /\ calls[c].pc = "done"
    /\ calls[c].result # "failed"

\* C26 (as claimed): a getOrCreateChat call given a chatId that was not in
\* storage ends with ChatNotFoundError and has created nothing; given a
\* chatId that was in storage it returns that chat, with messages of that
\* chat in an order in which createdAt never decreases, and has created
\* nothing; a call that created a chat was given no chatId; and no step of a
\* call given a chatId changes storage.
C26_GetOrCreateChatByIdNeverCreates ==
    /\ [](\A c \in Callers :
            GetOrCreateEnded(c) =>
               /\ (IsSome(calls[c].chatId) /\ ~calls[c].found)
                     => calls[c].result = "ChatNotFoundError" /\ ~calls[c].created
               /\ (IsSome(calls[c].chatId) /\ calls[c].found)
                     => /\ calls[c].result = "ok" /\ ~calls[c].created
                        /\ Get(calls[c].chat).id = Get(calls[c].chatId)
                        /\ LET messages == calls[c].messages
                           IN /\ \A i \in 1..Len(messages) :
                                    messages[i].chatId = Get(calls[c].chatId)
                              /\ \A i, j \in 1..Len(messages) :
                                    i < j => messages[i].createdAt <= messages[j].createdAt
               /\ calls[c].created => calls[c].chatId = None)
    /\ [][\A c \in Callers :
            (/\ calls'[c] # calls[c]
             /\ calls'[c].op = "getOrCreateChat"
             /\ IsSome(calls'[c].chatId))
               => UNCHANGED dbVars]_vars

\* The content of the first user message stored for conversation id: <<c>>,
\* or <<>> when it has none.
FirstUserMessage(id) ==
    LET users == SelectSeq(dbMessages,
                           LAMBDA m : m.chatId = id /\ m.role = "user")
    IN IF users = <<>> THEN None ELSE Some(users[1].content)

\* The title a route derives from a user message.
DerivedTitle(content) ==
    IF route = "llm" THEN Substring(content, TitleLength)
    ELSE SaveChatTitle(None, <<[role |-> "user", content |-> content]>>)

\* C27: a conversation comes into being only in the step that commits the
\* transaction of a request that names its id, and only when storage held
\* none under that id; once a request's transaction has committed the
\* conversation exists; a stored conversation's title is the route's
\* truncation of the first user message stored for it (the first 100
\* characters on route "llm", the first 50 on route "sdk"); and no step
\* changes the title, id or creation time of a conversation that exists.
C27_LazyCreationTitleFromFirstMessage ==
    /\ [](\A id \in ChatIds :
            IsSome(dbChats[id])
               => /\ IsSome(FirstUserMessage(id))
                  /\ Get(dbChats[id]).title = DerivedTitle(Get(FirstUserMessage(id)))
                  /\ Len(Get(dbChats[id]).title) <= TitleLength)
    /\ []((txPc = "committed" \/ savePc = "committed") => IsSome(dbChats[JobChatId]))
    /\ [][\A id \in StoredIds :
            /\ (dbChats[id] = None /\ IsSome(dbChats'[id]))
                  => Commits /\ id = JobChatId
            /\ IsSome(dbChats[id])
                  => /\ IsSome(dbChats'[id])
                     /\ Get(dbChats'[id]).title = Get(dbChats[id]).title
                     /\ Get(dbChats'[id]).id = Get(dbChats[id]).id
                     /\ Get(dbChats'[id]).createdAt = Get(dbChats[id]).createdAt]_vars

\* A request whose user message is longer than the title created its
\* conversation: the title holds the first 100 characters of the message.
C27_Witness ==
    /\ txPc = "committed"
    /\ IsSome(dbChats[JobChatId])
    /\ Get(dbChats[JobChatId]).createdAt >= 1
    /\ Len(Get(job).userMessageContent) > TitleLength
    /\ Len(Get(dbChats[JobChatId]).title) = TitleLength
    /\ IsPrefix(Get(dbChats[JobChatId]).title, Get(job).userMessageContent)

\* The operations that persist one exchange of a request.
PersistOps == {"routeTx", "saveChat"}

\* Callers c and d each ran the persistence transaction of a request on the
\* same conversation id, each found no conversation under it, and both have
\* ended without a failure of the database itself.
BothFoundNone(c, d) ==
    /\ c # d
    /\ calls[c].op \in PersistOps /\ calls[d].op \in PersistOps
    /\ calls[c].pc = "done" /\ calls[d].pc = "done"
    /\ calls[d].chatId = calls[c].chatId
    /\ ~calls[c].found /\ ~calls[d].found
    /\ calls[c].result # "failed" /\ calls[d].result # "failed"

\* C28 (as claimed): when the persistence transactions of two requests on the
\* same conversation id both found no conversation and both have ended,
\* both committed, storage holds the conversation, and it holds the user
\* message and the assistant message of each of the two requests.
C28_ConcurrentCreationKeepsBoth ==
    \A c, d \in Callers :
        BothFoundNone(c, d)
           => /\ calls[c].result = "ok" /\ calls[d].result = "ok"
              /\ IsSome(dbChats[Get(calls[c].chatId)])
              /\ Cardinality(StoredCopies(Get(calls[c].chatId), "user",
                                          RepoUserContent)) = 2
              /\ Cardinality(StoredCopies(Get(calls[c].chatId), "assistant",
                                          RepoAnswer)) = 2

\* C29 (as claimed): on route "llm", whenever the assistant message of the
\* request has been written by the transaction, committed or not yet, the
\* collector had read a chunk with done = TRUE from its branch.
C29_PersistsOnlyCompletedGenerations ==
    (route = "llm" /\ txPc \in {"update", "commit", "committed"})
        => \E i \in 1..Len(collReceived) : collReceived[i].done

\* The place of caller c among the calls that have ended, 0 if it has not.
EndedAt(c) ==
    IF \E i \in 1..Len(finished) : finished[i] = c
    THEN CHOOSE i \in 1..Len(finished) : finished[i] = c
    ELSE 0

\* The route's persistence transactions of callers c and d, on the same
\* conversation, ran concurrently (each began before the other ended) and
\* both committed.
PersistedConcurrently(c, d) ==
    /\ c # d
    /\ calls[c].op = "routeTx" /\ calls[d].op = "routeTx"
    /\ calls[c].result = "ok" /\ calls[d].result = "ok"
    /\ calls[d].chatId = calls[c].chatId
    /\ calls[c].began < EndedAt(d) /\ calls[d].began < EndedAt(c)

\* In the reading ms, the user message of caller c is immediately followed
\* by the assistant message of caller c.
ExchangeAdjacent(ms, c) ==
    \E i \in 1..(Len(ms) - 1) :
        /\ ms[i].id = calls[c].wrote[1] /\ ms[i].role = "user"
        /\ ms[i + 1].id = calls[c].wrote[2] /\ ms[i + 1].role = "assistant"

\* C30 (as claimed): after the persistence transactions of two requests on
\* the same conversation ran concurrently and both committed, every reading
\* of the conversation's messages in createdAt order (getChatHistory,
\* getChatById) has each request's user message immediately followed by that
\* request's assistant message.
C30_ExchangesNotInterleaved ==
    \A c, d \in Callers :
        PersistedConcurrently(c, d)
           => \A ms \in CreationOrders(MessagesOf(Get(calls[c].chatId))) :
                 ExchangeAdjacent(ms, c) /\ ExchangeAdjacent(ms, d)

====
